---- MODULE Spec2Model ----
(***************************************************************************)
(* Verification model of the RADM streaming anomaly detector               *)
(* (src/anomaly/anomaly.go) and of the SBOH compliance monitor             *)
(* (src/internal/hypervisor/healing.go).                                   *)
(*                                                                         *)
(* float64 values of the detector are modelled as binary floating-point    *)
(* numbers with Prec significant bits and round-to-nearest-even, stored as *)
(* an integer count of units of 2^-FracBits (float64 has 53 significant    *)
(* bits; the arithmetic below is the IEEE-754 arithmetic at a smaller      *)
(* width, so that rounding, and the drift it causes, happens on small      *)
(* numbers).  Latencies and revenues of the monitor are only compared,     *)
(* counted and summed on small integers, where float64 is exact.           *)
(***************************************************************************)
EXTENDS Integers, Sequences, FiniteSets, TLC

\* ------------------------------------------------------------------------
\* Bounds of the model
\* ------------------------------------------------------------------------
Prec == 4
FracBits == 4
MaxWindow == 3
MaxCalls == 5
MaxConcCalls == 3

\* ------------------------------------------------------------------------
\* float64 arithmetic at reduced width
\* ------------------------------------------------------------------------
\* 1.0
Unit == 2^FracBits

Abs(x) == IF x < 0 THEN -x ELSE x

\* distance between neighbouring representable numbers at magnitude q
RECURSIVE Spacing(_)
Spacing(q) == IF q < 2^Prec THEN 1 ELSE 2 * Spacing(q \div 2)

\* nearest integer to a/b (a >= 0, b > 0), ties to even
RoundNearestEven(a, b) ==
    LET fl == a \div b
        r  == a - fl * b
    IN  IF 2 * r < b THEN fl
        ELSE IF 2 * r > b THEN fl + 1
        ELSE IF fl % 2 = 0 THEN fl ELSE fl + 1

\* the representable number nearest to num/den units (den > 0)
RoundF(num, den) ==
    LET mag == Abs(num)
        sp  == Spacing(mag \div den)
        r   == sp * RoundNearestEven(mag, den * sp)
    IN  IF num < 0 THEN -r ELSE r

FAdd(a, b) == RoundF(a + b, 1)
FSub(a, b) == RoundF(a - b, 1)
FMul(a, b) == RoundF(a * b, Unit)
FDiv(a, b) == IF b < 0 THEN RoundF(-(a * Unit), -b) ELSE RoundF(a * Unit, b)
FromInt(n) == RoundF(n * Unit, 1)

RECURSIVE ISqrt(_)
ISqrt(n) ==
    IF n < 2 THEN n
    ELSE LET s == 2 * ISqrt(n \div 4)
         IN  IF (s + 1) * (s + 1) <= n THEN s + 1 ELSE s

\* math.Sqrt: the representable number nearest to the square root (a >= 0)
FSqrt(a) ==
    LET n  == a * Unit
        sp == Spacing(ISqrt(n))
        lo == sp * (ISqrt(n) \div sp)
        m  == 2 * lo + sp
    IN  IF 4 * n < m * m THEN lo
        ELSE IF 4 * n > m * m THEN lo + sp
        ELSE IF (lo \div sp) % 2 = 0 THEN lo ELSE lo + sp

\* math.MaxFloat64: the largest finite number of the format
MaxExp == 16
MaxFloat64 == (2^Prec - 1) * 2^MaxExp

\* ------------------------------------------------------------------------
\* Inputs
\* ------------------------------------------------------------------------
\* DataPoint.Value: 1.0, 3.0, 5.0 and 6.0
Values == {1 * Unit, 3 * Unit, 5 * Unit, 6 * Unit}
\* DataPoint.Timestamp
Timestamps == {1, 2}
DataPoints == [Timestamp : Timestamps, Value : Values]
\* NewDetector's threshold: 1.0 and 3.5
Thresholds == {Unit, 3 * Unit + Unit \div 2}
WindowSizes == 1..MaxWindow

VARIABLES
    ad,          \* the AnomalyDetector
    twin,        \* a second AnomalyDetector, fresh at construction and at every Reset of ad
    result,      \* what the last ProcessData on ad returned
    twinResult,  \* what the last ProcessData on twin returned
    stats,       \* what the last GetStats on ad returned
    hist,        \* the values given to ProcessData since construction or the last Reset
    prevWindow,  \* ad.dataWindow as it was before the last operation
    calls,       \* number of operations called so far
    lastOp       \* the operation that ran last

detVars == <<ad, twin, result, twinResult, stats, hist, prevWindow, calls, lastOp>>

\* goroutines calling into one detector
NumGoroutines == 2
Goroutines == 1..NumGoroutines

VARIABLES
    mu,          \* ad.mu, a sync.RWMutex: its writer (0 when none) and its readers
    pc,          \* where each goroutine is in the method it is running
    arg,         \* the DataPoint.Value a goroutine passed to ProcessData
    local,       \* currentSize as read by a goroutine running GetStats
    ret,         \* what the method a goroutine is running has returned
    order        \* the calls that took the write lock, in the order they took it

concVars == <<mu, pc, arg, local, ret, order>>

\* ------------------------------------------------------------------------
\* AnomalyDetector (src/anomaly/anomaly.go)
\* ------------------------------------------------------------------------
NewDetector(windowSize, threshold) ==
    [WindowSize |-> windowSize, Threshold |-> threshold,
     dataWindow |-> <<>>, sum |-> 0, sumOfSquares |-> 0]

\* a variant of Evict that drops the newest value of a full window
EvictNewest(d) ==
    IF Len(d.dataWindow) >= d.WindowSize
    THEN LET oldValue == d.dataWindow[Len(d.dataWindow)]
         IN  [d EXCEPT !.sum = FSub(@, oldValue),
                       !.sumOfSquares = FSub(@, FMul(oldValue, oldValue)),
                       !.dataWindow = SubSeq(@, 1, Len(@) - 1)]
    ELSE d

\* ProcessData, lines 42-47: make room when the window is full
Evict(d) ==
    IF Len(d.dataWindow) >= d.WindowSize
    THEN LET oldValue == d.dataWindow[1]
         IN  [d EXCEPT !.sum = FSub(@, oldValue),
                       !.sumOfSquares = FSub(@, FMul(oldValue, oldValue)),
                       !.dataWindow = Tail(@)]
    ELSE d

\* ProcessData, lines 49-51
Insert(d, newValue) ==
    [d EXCEPT !.sum = FAdd(@, newValue),
              !.sumOfSquares = FAdd(@, FMul(newValue, newValue)),
              !.dataWindow = Append(@, newValue)]

Ret(isAnomaly, zScore) == [isAnomaly |-> isAnomaly, zScore |-> zScore, err |-> "nil"]

\* ProcessData, lines 53-77
Evaluate(d, newValue) ==
    LET currentSize == Len(d.dataWindow)
        mean     == FDiv(d.sum, FromInt(currentSize))
        rawVar   == FSub(FDiv(d.sumOfSquares, FromInt(currentSize)), FMul(mean, mean))
        variance == IF rawVar < 0 THEN 0 ELSE rawVar
        stdDev   == FSqrt(variance)
        zScore   == Abs(FDiv(FSub(newValue, mean), stdDev))
    IN  IF currentSize < 2 THEN Ret(FALSE, 0)
        ELSE IF stdDev = 0
             THEN IF newValue # mean THEN Ret(TRUE, MaxFloat64) ELSE Ret(FALSE, 0)
             ELSE Ret(zScore > d.Threshold, zScore)

\* a variant of ProcessData that takes the timestamp of the data point for its value
ProcessDataOfTimestamp(d, dp) ==
    LET after == Insert(Evict(d), dp.Timestamp * Unit)
    IN  [det |-> after, ret |-> Evaluate(after, dp.Timestamp * Unit)]

ProcessData(d, dp) ==
    LET after == Insert(Evict(d), dp.Value)
    IN  [det |-> after, ret |-> Evaluate(after, dp.Value)]

GetStats(d) ==
    LET currentSize == Len(d.dataWindow)
        mean     == FDiv(d.sum, FromInt(currentSize))
        rawVar   == FSub(FDiv(d.sumOfSquares, FromInt(currentSize)), FMul(mean, mean))
        variance == IF rawVar < 0 THEN 0 ELSE rawVar
    IN  IF currentSize = 0 THEN [count |-> 0, mean |-> 0, stdDev |-> 0]
        ELSE [count |-> currentSize, mean |-> mean, stdDev |-> FSqrt(variance)]

\* a variant of Reset that leaves the window in place
ResetSumsOnly(d) == [d EXCEPT !.sum = 0, !.sumOfSquares = 0]

Reset(d) == [d EXCEPT !.dataWindow = <<>>, !.sum = 0, !.sumOfSquares = 0]

NoRet == [isAnomaly |-> FALSE, zScore |-> 0, err |-> "none"]
NoStats == [count |-> 0, mean |-> 0, stdDev |-> 0]

DetInit ==
    /\ \E w \in WindowSizes, t \in Thresholds :
          /\ ad = NewDetector(w, t)
          /\ twin = NewDetector(w, t)
    /\ result = NoRet
    /\ twinResult = NoRet
    /\ stats = NoStats
    /\ hist = <<>>
    /\ prevWindow = <<>>
    /\ calls = 0
    /\ lastOp = "NewDetector"

\* one ProcessData call on ad; twin is given the same value (its timestamp may differ)
DoProcessData ==
    /\ calls < MaxCalls
    /\ \E dp \in DataPoints, ts \in Timestamps :
          /\ ad' = ProcessData(ad, dp).det
          /\ result' = Evaluate(ad', dp.Value)
          /\ twin' = ProcessData(twin, [Timestamp |-> ts, Value |-> dp.Value]).det
          /\ twinResult' = Evaluate(twin', dp.Value)
          /\ hist' = Append(hist, dp.Value)
    /\ prevWindow' = ad.dataWindow
    /\ calls' = calls + 1
    /\ lastOp' = "ProcessData"
    /\ UNCHANGED stats

DoGetStats ==
    /\ calls < MaxCalls
    /\ stats' = GetStats(ad)
    /\ prevWindow' = ad.dataWindow
    /\ calls' = calls + 1
    /\ lastOp' = "GetStats"
    /\ UNCHANGED <<ad, twin, result, twinResult, hist>>

\* a variant of DoReset that empties the window and keeps the running sums
DoResetWindowOnly ==
    /\ calls < MaxCalls
    /\ ad' = [ad EXCEPT !.dataWindow = <<>>]
    /\ twin' = NewDetector(ad.WindowSize, ad.Threshold)
    /\ hist' = <<>>
    /\ prevWindow' = ad.dataWindow
    /\ calls' = calls + 1
    /\ lastOp' = "Reset"
    /\ UNCHANGED <<result, twinResult, stats>>

DoReset ==
    /\ calls < MaxCalls
    /\ ad' = Reset(ad)
    /\ twin' = NewDetector(ad.WindowSize, ad.Threshold)
    /\ hist' = <<>>
    /\ prevWindow' = ad.dataWindow
    /\ calls' = calls + 1
    /\ lastOp' = "Reset"
    /\ UNCHANGED <<result, twinResult, stats>>

\* ------------------------------------------------------------------------
\* The detector called from several goroutines: each method is a sequence of
\* steps between taking and releasing ad.mu
\* ------------------------------------------------------------------------
\* a variant of CanLock that does not wait for the readers
CanLockBesideReaders(m) == m.writer = 0

\* sync.RWMutex: Lock waits for the writer and for all readers to leave
CanLock(m) == m.writer = 0 /\ m.readers = {}
\* a variant of CanRLock that does not wait for the writer
CanRLockBesideWriter(m) == TRUE

\* sync.RWMutex: RLock waits for the writer to leave
CanRLock(m) == m.writer = 0

Goto(g, label) == pc' = [pc EXCEPT ![g] = label]

\* a goroutine calls ProcessData(dp)
CallProcessData(g) ==
    /\ pc[g] = "idle"
    /\ calls < MaxConcCalls
    /\ \E dp \in DataPoints : arg' = [arg EXCEPT ![g] = dp.Value]
    /\ calls' = calls + 1
    /\ Goto(g, "pd_lock")
    /\ UNCHANGED <<ad, mu, local, ret, order>>

\* line 37: ad.mu.Lock()
ProcessDataLock(g) ==
    /\ pc[g] = "pd_lock"
    /\ CanLock(mu)
    /\ mu' = [mu EXCEPT !.writer = g]
    /\ order' = Append(order, [op |-> "ProcessData", value |-> arg[g]])
    /\ Goto(g, "pd_evict")
    /\ UNCHANGED <<ad, arg, local, ret, calls>>

\* lines 42-47
ProcessDataEvict(g) ==
    /\ pc[g] = "pd_evict"
    /\ ad' = Evict(ad)
    /\ Goto(g, "pd_insert")
    /\ UNCHANGED <<mu, arg, local, ret, order, calls>>

\* lines 49-51
ProcessDataInsert(g) ==
    /\ pc[g] = "pd_insert"
    /\ ad' = Insert(ad, arg[g])
    /\ Goto(g, "pd_evaluate")
    /\ UNCHANGED <<mu, arg, local, ret, order, calls>>

\* lines 53-77
ProcessDataEvaluate(g) ==
    /\ pc[g] = "pd_evaluate"
    /\ ret' = [ret EXCEPT ![g] = Evaluate(ad, arg[g])]
    /\ Goto(g, "pd_unlock")
    /\ UNCHANGED <<ad, mu, arg, local, order, calls>>

\* line 38: the deferred ad.mu.Unlock()
ProcessDataUnlock(g) ==
    /\ pc[g] = "pd_unlock"
    /\ mu' = [mu EXCEPT !.writer = 0]
    /\ Goto(g, "idle")
    /\ UNCHANGED <<ad, arg, local, ret, order, calls>>

\* a goroutine calls GetStats()
CallGetStats(g) ==
    /\ pc[g] = "idle"
    /\ calls < MaxConcCalls
    /\ calls' = calls + 1
    /\ Goto(g, "gs_rlock")
    /\ UNCHANGED <<ad, mu, arg, local, ret, order>>

\* line 82: ad.mu.RLock()
GetStatsRLock(g) ==
    /\ pc[g] = "gs_rlock"
    /\ CanRLock(mu)
    /\ mu' = [mu EXCEPT !.readers = @ \cup {g}]
    /\ Goto(g, "gs_size")
    /\ UNCHANGED <<ad, arg, local, ret, order, calls>>

\* line 85: currentSize := len(ad.dataWindow)
GetStatsSize(g) ==
    /\ pc[g] = "gs_size"
    /\ local' = [local EXCEPT ![g] = Len(ad.dataWindow)]
    /\ Goto(g, "gs_compute")
    /\ UNCHANGED <<ad, mu, arg, ret, order, calls>>

\* lines 86-98, with the currentSize read at line 85
GetStatsCompute(g) ==
    /\ pc[g] = "gs_compute"
    /\ LET currentSize == local[g]
           mean     == FDiv(ad.sum, FromInt(currentSize))
           rawVar   == FSub(FDiv(ad.sumOfSquares, FromInt(currentSize)), FMul(mean, mean))
           variance == IF rawVar < 0 THEN 0 ELSE rawVar
       IN  ret' = [ret EXCEPT ![g] =
                      IF currentSize = 0 THEN [count |-> 0, mean |-> 0, stdDev |-> 0]
                      ELSE [count |-> currentSize, mean |-> mean, stdDev |-> FSqrt(variance)]]
    /\ Goto(g, "gs_runlock")
    /\ UNCHANGED <<ad, mu, arg, local, order, calls>>

\* line 83: the deferred ad.mu.RUnlock()
GetStatsRUnlock(g) ==
    /\ pc[g] = "gs_runlock"
    /\ mu' = [mu EXCEPT !.readers = @ \ {g}]
    /\ Goto(g, "idle")
    /\ UNCHANGED <<ad, arg, local, ret, order, calls>>

\* a goroutine calls Reset()
CallReset(g) ==
    /\ pc[g] = "idle"
    /\ calls < MaxConcCalls
    /\ calls' = calls + 1
    /\ Goto(g, "rs_lock")
    /\ UNCHANGED <<ad, mu, arg, local, ret, order>>

\* line 103: ad.mu.Lock()
ResetLock(g) ==
    /\ pc[g] = "rs_lock"
    /\ CanLock(mu)
    /\ mu' = [mu EXCEPT !.writer = g]
    /\ order' = Append(order, [op |-> "Reset", value |-> 0])
    /\ Goto(g, "rs_window")
    /\ UNCHANGED <<ad, arg, local, ret, calls>>

\* line 106
ResetWindow(g) ==
    /\ pc[g] = "rs_window"
    /\ ad' = [ad EXCEPT !.dataWindow = <<>>]
    /\ Goto(g, "rs_sums")
    /\ UNCHANGED <<mu, arg, local, ret, order, calls>>

\* lines 107-108
ResetSums(g) ==
    /\ pc[g] = "rs_sums"
    /\ ad' = [ad EXCEPT !.sum = 0, !.sumOfSquares = 0]
    /\ Goto(g, "rs_unlock")
    /\ UNCHANGED <<mu, arg, local, ret, order, calls>>

\* line 104: the deferred ad.mu.Unlock()
ResetUnlock(g) ==
    /\ pc[g] = "rs_unlock"
    /\ mu' = [mu EXCEPT !.writer = 0]
    /\ Goto(g, "idle")
    /\ UNCHANGED <<ad, arg, local, ret, order, calls>>

\* ------------------------------------------------------------------------
\* Hypervisor, the SBOH compliance monitor (src/internal/hypervisor/healing.go)
\* Latencies are whole milliseconds, revenues multiples of the default price
\* 0.001, percentages multiples of 0.001 percent (rounded down).
\* ------------------------------------------------------------------------
MaxSamplesCfg == 2
MaxRecords == 3

DefaultMaxSamples == 10000
A2LimitMS == 50
A4LimitMilliPct == 99999

Latencies == {10, 50, 60}
Revenues == {0, 1}
\* Config.MaxSamples; 0 selects the default
MonConfigs == [MaxSamples : 0..MaxSamplesCfg]

VARIABLES
    hv,          \* the Hypervisor
    mlog,        \* every sample given to RecordDecision, in call order
    mret         \* the last operation on hv and what it returned

monVars == <<hv, mlog, mret>>

ZeroMetrics ==
    [P95LatencyMS |-> 0, DecisionSuccessRate |-> 0, MonetizationAccuracy |-> 0,
     TotalDecisions |-> 0, SuccessfulDecisions |-> 0, TotalRevenue |-> 0]

NewHypervisor(config) ==
    [metrics |-> ZeroMetrics,
     latencySamples |-> <<>>, decisionOutcomes |-> <<>>, revenueTracking |-> <<>>,
     maxSamples |-> IF config.MaxSamples <= 0 THEN DefaultMaxSamples ELSE config.MaxSamples]

Swap(s, j) == [s EXCEPT ![j] = s[j + 1], ![j + 1] = s[j]]

\* the compare-and-swap of lines 145-147 at position j (positions count from 1 here)
CompareSwap(s, j) == IF s[j] > s[j + 1] THEN Swap(s, j) ELSE s

\* the inner loop, lines 144-148: CompareSwap at j = lo, lo+1, .., hi in this
\* order (the range is split in two halves to keep the evaluation shallow)
RECURSIVE BubblePass(_, _, _)
BubblePass(s, lo, hi) ==
    IF lo > hi THEN s
    ELSE IF lo = hi THEN CompareSwap(s, lo)
    ELSE LET mid == (lo + hi) \div 2
             t   == BubblePass(s, lo, mid)
         IN  \* (the test makes TLC finish the first half before the second)
             IF Len(t) = Len(s) THEN BubblePass(t, mid + 1, hi) ELSE t

\* the outer loop, lines 143-149: one inner loop for i = lo, lo+1, .., hi
RECURSIVE BubbleLoop(_, _, _)
BubbleLoop(s, lo, hi) ==
    IF lo > hi THEN s
    ELSE IF lo = hi THEN BubblePass(s, 1, Len(s) - 1 - lo)
    ELSE LET mid == (lo + hi) \div 2
             t   == BubbleLoop(s, lo, mid)
         IN  IF Len(t) = Len(s) THEN BubbleLoop(t, mid + 1, hi) ELSE t

BubbleSort(s) == BubbleLoop(s, 0, Len(s) - 1)

\* int(float64(n) * 0.95)
P95Index(n) == (n * 95) \div 100

\* a variant of calculateP95Latency that indexes the window instead of the sorted copy
CalculateP95LatencyUnsorted(h) ==
    IF Len(h.latencySamples) = 0 THEN 0
    ELSE LET samples  == h.latencySamples
             p95Index == IF P95Index(Len(samples)) >= Len(samples)
                         THEN Len(samples) - 1 ELSE P95Index(Len(samples))
         IN  samples[p95Index + 1]

CalculateP95Latency(h) ==
    IF Len(h.latencySamples) = 0 THEN 0
    ELSE LET samples  == BubbleSort(h.latencySamples)
             p95Index == IF P95Index(Len(samples)) >= Len(samples)
                         THEN Len(samples) - 1 ELSE P95Index(Len(samples))
         IN  samples[p95Index + 1]

RECURSIVE CountTrue(_)
CountTrue(s) == IF s = <<>> THEN 0 ELSE (IF Head(s) THEN 1 ELSE 0) + CountTrue(Tail(s))

CountSuccessfulDecisions(h) == CountTrue(h.decisionOutcomes)

\* (a / b) * 100.0
Percent(a, b) == (a * 100000) \div b

CalculateSuccessRate(h) ==
    IF Len(h.decisionOutcomes) = 0 THEN Percent(1, 1)
    ELSE Percent(CountSuccessfulDecisions(h), Len(h.decisionOutcomes))

RECURSIVE CountZero(_)
CountZero(s) == IF s = <<>> THEN 0 ELSE (IF Head(s) = 0 THEN 1 ELSE 0) + CountZero(Tail(s))

CalculateMonetizationAccuracy(h) ==
    LET zeroCount == CountZero(h.revenueTracking)
    IN  IF Len(h.revenueTracking) = 0 THEN Percent(1, 1)
        ELSE IF zeroCount = 0 THEN Percent(1, 1)
        ELSE Percent(Len(h.revenueTracking) - zeroCount, Len(h.revenueTracking))

RECURSIVE SumSeq(_)
SumSeq(s) == IF s = <<>> THEN 0 ELSE Head(s) + SumSeq(Tail(s))

SumRevenue(h) == SumSeq(h.revenueTracking)

\* a variant of updateMetrics that recomputes the counters only
UpdateMetricsCountersOnly(h) ==
    [h EXCEPT !.metrics =
        [@ EXCEPT !.TotalDecisions = Len(h.decisionOutcomes),
                  !.SuccessfulDecisions = CountSuccessfulDecisions(h),
                  !.TotalRevenue = SumRevenue(h)]]

UpdateMetrics(h) ==
    [h EXCEPT !.metrics =
        [P95LatencyMS |-> CalculateP95Latency(h),
         DecisionSuccessRate |-> CalculateSuccessRate(h),
         MonetizationAccuracy |-> CalculateMonetizationAccuracy(h),
         TotalDecisions |-> Len(h.decisionOutcomes),
         SuccessfulDecisions |-> CountSuccessfulDecisions(h),
         TotalRevenue |-> SumRevenue(h)]]

\* a variant of RecordDecision that forgets to trim revenueTracking
RecordDecisionRevenueKept(h, latencyMS, success, revenue) ==
    LET added == [h EXCEPT !.latencySamples = Append(@, latencyMS),
                           !.decisionOutcomes = Append(@, success),
                           !.revenueTracking = Append(@, revenue)]
        kept  == IF Len(added.latencySamples) > added.maxSamples
                 THEN [added EXCEPT !.latencySamples = Tail(@),
                                    !.decisionOutcomes = Tail(@)]
                 ELSE added
    IN  UpdateMetrics(kept)

RecordDecision(h, latencyMS, success, revenue) ==
    LET added == [h EXCEPT !.latencySamples = Append(@, latencyMS),
                           !.decisionOutcomes = Append(@, success),
                           !.revenueTracking = Append(@, revenue)]
        kept  == IF Len(added.latencySamples) > added.maxSamples
                 THEN [added EXCEPT !.latencySamples = Tail(@),
                                    !.decisionOutcomes = Tail(@),
                                    !.revenueTracking = Tail(@)]
                 ELSE added
    IN  UpdateMetrics(kept)

GetSBOHMetrics(h) == h.metrics
\* a variant of IsAxiomA2Compliant that treats exactly 50 ms as a violation
IsAxiomA2CompliantStrict(h) == h.metrics.P95LatencyMS < A2LimitMS
IsAxiomA2Compliant(h) == h.metrics.P95LatencyMS <= A2LimitMS
\* a variant of IsAxiomA4Compliant that asks for half of the samples only
IsAxiomA4CompliantHalf(h) == h.metrics.MonetizationAccuracy >= Percent(1, 2)
IsAxiomA4Compliant(h) == h.metrics.MonetizationAccuracy >= A4LimitMilliPct

Returned(op, b, m) == [op |-> op, bool |-> b, metrics |-> m]

MonInit ==
    /\ \E config \in MonConfigs : hv = NewHypervisor(config)
    /\ mlog = <<>>
    /\ mret = Returned("NewHypervisor", FALSE, ZeroMetrics)

DoRecordDecision ==
    /\ Len(mlog) < MaxRecords
    /\ \E latencyMS \in Latencies, success \in BOOLEAN, revenue \in Revenues :
          /\ hv' = RecordDecision(hv, latencyMS, success, revenue)
          /\ mlog' = Append(mlog, [latencyMS |-> latencyMS, success |-> success,
                                   revenue |-> revenue])
    /\ mret' = Returned("RecordDecision", FALSE, ZeroMetrics)

DoGetSBOHMetrics ==
    /\ mret' = Returned("GetSBOHMetrics", FALSE, GetSBOHMetrics(hv))
    /\ UNCHANGED <<hv, mlog>>

DoIsAxiomA2Compliant ==
    /\ mret' = Returned("IsAxiomA2Compliant", IsAxiomA2Compliant(hv), ZeroMetrics)
    /\ UNCHANGED <<hv, mlog>>

DoIsAxiomA4Compliant ==
    /\ mret' = Returned("IsAxiomA4Compliant", IsAxiomA4Compliant(hv), ZeroMetrics)
    /\ UNCHANGED <<hv, mlog>>

\* ------------------------------------------------------------------------
\* The monitor called from several goroutines: RecordDecision and
\* GetSBOHMetrics as sequences of steps between taking and releasing h.mu
\* ------------------------------------------------------------------------
MaxMonCalls == 3

VARIABLES
    hmu,         \* h.mu: the goroutine holding the write lock (0: none), the readers
    hpc,         \* where each goroutine is in its call on hv
    harg,        \* the sample each goroutine is recording
    hret,        \* the snapshot each goroutine's GetSBOHMetrics copied
    hcalls       \* calls on hv started so far

monConcVars == <<hmu, hpc, harg, hret, hcalls>>

NoSample == [latencyMS |-> 0, success |-> FALSE, revenue |-> 0]

\* the samples the goroutines record
ConcSamples == {[latencyMS |-> 10, success |-> TRUE, revenue |-> 1],
                [latencyMS |-> 60, success |-> FALSE, revenue |-> 0],
                [latencyMS |-> 50, success |-> TRUE, revenue |-> 0]}

HGoto(g, label) == hpc' = [hpc EXCEPT ![g] = label]

\* a goroutine calls RecordDecision(latencyMS, success, revenue)
CallRecordDecision(g) ==
    /\ hpc[g] = "idle"
    /\ hcalls < MaxMonCalls
    /\ \E sample \in ConcSamples : harg' = [harg EXCEPT ![g] = sample]
    /\ hcalls' = hcalls + 1
    /\ HGoto(g, "rd_lock")
    /\ UNCHANGED <<hv, mlog, mret, hmu, hret>>

\* line 95: h.mu.Lock()
RecordDecisionLock(g) ==
    /\ hpc[g] = "rd_lock"
    /\ CanLock(hmu)
    /\ hmu' = [hmu EXCEPT !.writer = g]
    /\ mlog' = Append(mlog, harg[g])
    /\ HGoto(g, "rd_append")
    /\ UNCHANGED <<hv, mret, harg, hret, hcalls>>

\* lines 99-101
RecordDecisionAppend(g) ==
    /\ hpc[g] = "rd_append"
    /\ hv' = [hv EXCEPT !.latencySamples = Append(@, harg[g].latencyMS),
                        !.decisionOutcomes = Append(@, harg[g].success),
                        !.revenueTracking = Append(@, harg[g].revenue)]
    /\ HGoto(g, "rd_trim")
    /\ UNCHANGED <<mlog, mret, hmu, harg, hret, hcalls>>

\* lines 104-108
RecordDecisionTrim(g) ==
    /\ hpc[g] = "rd_trim"
    /\ hv' = IF Len(hv.latencySamples) > hv.maxSamples
             THEN [hv EXCEPT !.latencySamples = Tail(@),
                             !.decisionOutcomes = Tail(@),
                             !.revenueTracking = Tail(@)]
             ELSE hv
    /\ HGoto(g, "um_ratios")
    /\ UNCHANGED <<mlog, mret, hmu, harg, hret, hcalls>>

\* updateMetrics, lines 117-123
UpdateMetricsRatios(g) ==
    /\ hpc[g] = "um_ratios"
    /\ hv' = [hv EXCEPT !.metrics.P95LatencyMS = CalculateP95Latency(hv),
                        !.metrics.DecisionSuccessRate = CalculateSuccessRate(hv),
                        !.metrics.MonetizationAccuracy = CalculateMonetizationAccuracy(hv)]
    /\ HGoto(g, "um_total")
    /\ UNCHANGED <<mlog, mret, hmu, harg, hret, hcalls>>

\* updateMetrics, line 126
UpdateMetricsTotal(g) ==
    /\ hpc[g] = "um_total"
    /\ hv' = [hv EXCEPT !.metrics.TotalDecisions = Len(hv.decisionOutcomes)]
    /\ HGoto(g, "um_successful")
    /\ UNCHANGED <<mlog, mret, hmu, harg, hret, hcalls>>

\* updateMetrics, line 127
UpdateMetricsSuccessful(g) ==
    /\ hpc[g] = "um_successful"
    /\ hv' = [hv EXCEPT !.metrics.SuccessfulDecisions = CountSuccessfulDecisions(hv)]
    /\ HGoto(g, "um_revenue")
    /\ UNCHANGED <<mlog, mret, hmu, harg, hret, hcalls>>

\* updateMetrics, line 128
UpdateMetricsRevenue(g) ==
    /\ hpc[g] = "um_revenue"
    /\ hv' = [hv EXCEPT !.metrics.TotalRevenue = SumRevenue(hv)]
    /\ HGoto(g, "rd_unlock")
    /\ UNCHANGED <<mlog, mret, hmu, harg, hret, hcalls>>

\* line 96: the deferred h.mu.Unlock()
RecordDecisionUnlock(g) ==
    /\ hpc[g] = "rd_unlock"
    /\ hmu' = [hmu EXCEPT !.writer = 0]
    /\ HGoto(g, "idle")
    /\ UNCHANGED <<hv, mlog, mret, harg, hret, hcalls>>

\* a goroutine calls GetSBOHMetrics()
CallGetSBOHMetrics(g) ==
    /\ hpc[g] = "idle"
    /\ hcalls < MaxMonCalls
    /\ hcalls' = hcalls + 1
    /\ HGoto(g, "gm_rlock")
    /\ UNCHANGED <<hv, mlog, mret, hmu, harg, hret>>

\* line 214: h.mu.RLock()
GetSBOHMetricsRLock(g) ==
    /\ hpc[g] = "gm_rlock"
    /\ CanRLock(hmu)
    /\ hmu' = [hmu EXCEPT !.readers = @ \cup {g}]
    /\ HGoto(g, "gm_copy")
    /\ UNCHANGED <<hv, mlog, mret, harg, hret, hcalls>>

\* line 217: return h.metrics
GetSBOHMetricsCopy(g) ==
    /\ hpc[g] = "gm_copy"
    /\ hret' = [hret EXCEPT ![g] = GetSBOHMetrics(hv)]
    /\ HGoto(g, "gm_runlock")
    /\ UNCHANGED <<hv, mlog, mret, hmu, harg, hcalls>>

\* line 215: the deferred h.mu.RUnlock()
GetSBOHMetricsRUnlock(g) ==
    /\ hpc[g] = "gm_runlock"
    /\ hmu' = [hmu EXCEPT !.readers = @ \ {g}]
    /\ HGoto(g, "idle")
    /\ UNCHANGED <<hv, mlog, mret, harg, hret, hcalls>>

\* ------------------------------------------------------------------------
\* calculateP95Latency on its own, on sample windows of up to a hundred entries
\* ------------------------------------------------------------------------
P95Sizes == {0, 1, 2, 3, 5, 10, 19, 20, 21, 40, 60, 100}
P95Shapes == {"ascending", "descending", "rotated", "zigzag", "tens", "pairs"}

VARIABLES
    p95h,        \* a Hypervisor holding the window under test
    p95in,       \* that window as it was loaded
    p95ret       \* what calculateP95Latency returned, -1 before the call

p95Vars == <<p95h, p95in, p95ret>>

\* a window of n latencies: 1..n, n..1, 1..n rotated by a third, 1..n with the
\* even places reversed, 10,20,..,10n, or 1,1,2,2,3,3,..
Window(n, shape) ==
    [i \in 1..n |->
        CASE shape = "ascending"  -> i
          [] shape = "descending" -> n + 1 - i
          [] shape = "rotated"    -> ((i + n \div 3) % n) + 1
          [] shape = "zigzag"     -> IF i % 2 = 1 THEN i ELSE 2 * (n \div 2) + 2 - i
          [] shape = "tens"       -> 10 * i
          [] shape = "pairs"      -> (i + 1) \div 2]

P95Init ==
    /\ \E n \in P95Sizes, shape \in P95Shapes :
          /\ p95in = Window(n, shape)
          /\ p95h = [NewHypervisor([MaxSamples |-> 0]) EXCEPT !.latencySamples = Window(n, shape)]
    /\ p95ret = -1

DoCalculateP95Latency ==
    /\ p95ret = -1
    /\ p95ret' = CalculateP95Latency(p95h)
    /\ UNCHANGED <<p95h, p95in>>

\* ------------------------------------------------------------------------
\* RedTeam, the fault injector (src/internal/redteam/redteam.go), one call at
\* a time.  Time is counted in ticks of the clock; probabilities and the
\* numbers drawn from rt.rand are hundredths.
\* ------------------------------------------------------------------------
MaxTime == 2

FaultTypes == {"latency", "processing_fail"}
\* FaultConfig.Probability: 0.0, 0.5 and 1.0
Probabilities == {0, 50, 100}
FaultDurations == {1, 2}
\* rand.Float64() is in [0.0, 1.0): 0.0 and 0.99
Float64s == {0, 99}

VARIABLES
    rt,          \* the RedTeam: faultConfigs and activeFaults
    now,         \* the clock
    incident,    \* per kind: when its last trial succeeded, -1 when there was none
                 \* or the kind has been disabled or configured again since
    rtRet        \* the last operation on rt: what it was given, saw and returned

rtVars == <<rt, now, incident, rtRet>>

NewRedTeam == [faultConfigs |-> <<>>, activeFaults |-> <<>>]

\* delete(m, k)
Delete(m, k) == [x \in DOMAIN m \ {k} |-> m[x]]

\* m[k] = v
Store(m, k, v) == [x \in DOMAIN m \cup {k} |-> IF x = k THEN v ELSE m[x]]

ConfigureFault(r, config) ==
    [r EXCEPT !.faultConfigs =
        Store(@, config.Type, [config EXCEPT !.Enabled = TRUE])]

EnableFault(r, faultType) ==
    IF faultType \in DOMAIN r.faultConfigs
    THEN [r EXCEPT !.faultConfigs[faultType].Enabled = TRUE]
    ELSE r

\* a variant of DisableFault that leaves the active entry in the table
DisableFaultKeepingActive(r, faultType) ==
    IF faultType \in DOMAIN r.faultConfigs
    THEN [r EXCEPT !.faultConfigs[faultType].Enabled = FALSE]
    ELSE r

DisableFault(r, faultType) ==
    IF faultType \in DOMAIN r.faultConfigs
    THEN [r EXCEPT !.faultConfigs[faultType].Enabled = FALSE,
                   !.activeFaults = Delete(@, faultType)]
    ELSE r

\* a variant of Armed that does not look at Enabled
ArmedWhenConfigured(r, faultType) == faultType \in DOMAIN r.faultConfigs

\* lines 86-92: the kind is configured and enabled
Armed(r, faultType) ==
    /\ faultType \in DOMAIN r.faultConfigs
    /\ r.faultConfigs[faultType].Enabled

\* a variant of StillActive that never finds an incident
StillActiveNever(r, faultType, t) == FALSE

\* lines 96-97: the kind has an active entry younger than its duration
StillActive(r, faultType, t) ==
    /\ faultType \in DOMAIN r.activeFaults
    /\ t - r.activeFaults[faultType] < r.faultConfigs[faultType].Duration

\* a variant of TrialSucceeds that compares the draw with half the probability
TrialSucceedsHalved(draw, config) == 2 * draw < config.Probability

\* line 105: rt.rand.Float64() < config.Probability
TrialSucceeds(draw, config) == draw < config.Probability

\* what a call at time t does when rt.rand would give draw: the RedTeam after
\* it, what it returns and whether it drew
ShouldInjectFault(r, faultType, t, draw) ==
    IF ~Armed(r, faultType)
    THEN [rt |-> r, ret |-> FALSE, drew |-> FALSE]
    ELSE IF StillActive(r, faultType, t)
    THEN [rt |-> r, ret |-> TRUE, drew |-> FALSE]
    ELSE IF TrialSucceeds(draw, r.faultConfigs[faultType])
    THEN [rt |-> [r EXCEPT !.activeFaults = Store(@, faultType, t)],
          ret |-> TRUE, drew |-> TRUE]
    ELSE [rt |-> r, ret |-> FALSE, drew |-> TRUE]

GetActiveFaults(r, t) ==
    LET shown == {faultType \in DOMAIN r.activeFaults :
                     /\ faultType \in DOMAIN r.faultConfigs
                     /\ r.faultConfigs[faultType].Enabled
                     /\ t - r.activeFaults[faultType] < r.faultConfigs[faultType].Duration}
    IN  [faultType \in shown |-> r.activeFaults[faultType]]

\* a variant of CleanupExpiredFaults that keeps an entry at the very end of its duration
CleanupExpiredFaultsLate(r, t) ==
    LET expired == {faultType \in DOMAIN r.activeFaults :
                       /\ faultType \in DOMAIN r.faultConfigs
                       /\ t - r.activeFaults[faultType] > r.faultConfigs[faultType].Duration}
    IN  [r EXCEPT !.activeFaults = [faultType \in DOMAIN @ \ expired |-> @[faultType]]]

CleanupExpiredFaults(r, t) ==
    LET expired == {faultType \in DOMAIN r.activeFaults :
                       /\ faultType \in DOMAIN r.faultConfigs
                       /\ t - r.activeFaults[faultType] >= r.faultConfigs[faultType].Duration}
    IN  [r EXCEPT !.activeFaults = [faultType \in DOMAIN @ \ expired |-> @[faultType]]]

\* what the last operation was, on which kind, at what time, on which RedTeam,
\* during which incident of the kind, and what came back
RtReturned(op, faultType, pre, inc, b, drew, faults) ==
    [op |-> op, kind |-> faultType, at |-> now, pre |-> pre, incident |-> inc,
     bool |-> b, drew |-> drew, faults |-> faults]

RtInit ==
    /\ rt = NewRedTeam
    /\ now = 0
    /\ incident = [faultType \in FaultTypes |-> -1]
    /\ rtRet = RtReturned("NewRedTeam", "latency", NewRedTeam, -1, FALSE, FALSE, <<>>)

\* time passes
Tick ==
    /\ now < MaxTime
    /\ now' = now + 1
    /\ UNCHANGED <<rt, incident, rtRet>>

DoConfigureFault ==
    \E faultType \in FaultTypes, probability \in Probabilities,
       duration \in FaultDurations, enabled \in BOOLEAN :
        /\ rt' = ConfigureFault(rt, [Type |-> faultType, Probability |-> probability,
                                     Duration |-> duration, Enabled |-> enabled])
        /\ incident' = [incident EXCEPT ![faultType] = -1]
        /\ rtRet' = RtReturned("ConfigureFault", faultType, rt, incident[faultType],
                               FALSE, FALSE, <<>>)
        /\ UNCHANGED now

DoEnableFault ==
    \E faultType \in FaultTypes :
        /\ rt' = EnableFault(rt, faultType)
        /\ rtRet' = RtReturned("EnableFault", faultType, rt, incident[faultType],
                               FALSE, FALSE, <<>>)
        /\ UNCHANGED <<now, incident>>

DoDisableFault ==
    \E faultType \in FaultTypes :
        /\ rt' = DisableFault(rt, faultType)
        /\ incident' = [incident EXCEPT ![faultType] = -1]
        /\ rtRet' = RtReturned("DisableFault", faultType, rt, incident[faultType],
                               FALSE, FALSE, <<>>)
        /\ UNCHANGED now

DoShouldInjectFault ==
    \E faultType \in FaultTypes, draw \in Float64s :
        LET call == ShouldInjectFault(rt, faultType, now, draw)
        IN  /\ rt' = call.rt
            /\ incident' = IF call.drew /\ call.ret
                           THEN [incident EXCEPT ![faultType] = now]
                           ELSE incident
            /\ rtRet' = RtReturned("ShouldInjectFault", faultType, rt, incident[faultType],
                                   call.ret, call.drew, <<>>)
            /\ UNCHANGED now

DoGetActiveFaults ==
    /\ rtRet' = RtReturned("GetActiveFaults", "latency", rt, -1, FALSE, FALSE,
                           GetActiveFaults(rt, now))
    /\ UNCHANGED <<rt, now, incident>>

\* the cleanup routine's ticker fires, or CleanupExpiredFaults is called
DoCleanupExpiredFaults ==
    /\ rt' = CleanupExpiredFaults(rt, now)
    /\ rtRet' = RtReturned("CleanupExpiredFaults", "latency", rt, -1, FALSE, FALSE, <<>>)
    /\ UNCHANGED <<now, incident>>

\* ------------------------------------------------------------------------
\* TriggerHealing (src/internal/hypervisor/healing.go) and the Healer it
\* drives (src/internal/blueteam/blueteam.go).  Durations are whole seconds.
\* ------------------------------------------------------------------------
MaxTriggers == 2
MaxHealerData == 2

\* const healingLimit = 60 * time.Second
HealingLimit == 60
\* h.Detector.ResetState(500, 3.5)
DefaultWindowSize == 500

\* what ExecuteHardReversion or ExecuteSoftPatch measured with time.Since(start)
HealDurations == {1, 60, 61}

VARIABLES
    hd,          \* healer.Detector
    proc,        \* the process: "running", or "exited" after log.Fatalf
    out,         \* what TriggerHealing has put out: log lines and metrics
    triggers,    \* the TriggerHealing invocations so far: isCritical and the duration measured
    hdBefore     \* healer.Detector as the last TriggerHealing invocation found it

thVars == <<hd, proc, out, triggers, hdBefore>>

\* a variant of ResetState that sets the parameters and keeps the data
ResetStateKeepingData(d, windowSize, threshold) ==
    [d EXCEPT !.WindowSize = windowSize, !.Threshold = threshold]

\* AnomalyDetector.ResetState: back to a detector without data, with the
\* window size and threshold given
ResetState(d, windowSize, threshold) == NewDetector(windowSize, threshold)

\* AnomalyDetector.AdjustThreshold
AdjustThreshold(d, newThreshold) == [d EXCEPT !.Threshold = newThreshold]

\* the detector after the call; the duration returned is the caller's clock reading
ExecuteHardReversion(d) == ResetState(d, DefaultWindowSize, 3 * Unit + Unit \div 2)

ExecuteSoftPatch(d, newThreshold) == AdjustThreshold(d, newThreshold)

NoOutput == [fatalLogs |-> 0, successLogs |-> 0, observed |-> <<>>, exceeded |-> 0]

\* a variant of TriggerHealing for which a duration of exactly the limit is an overrun
TriggerHealingStrict(d, o, isCritical, duration) ==
    LET healed == IF isCritical THEN ExecuteHardReversion(d)
                  ELSE ExecuteSoftPatch(d, RoundF(32 * Unit, 10))
    IN  IF duration >= HealingLimit
        THEN [hd |-> healed, proc |-> "exited",
              out |-> [o EXCEPT !.fatalLogs = @ + 1]]
        ELSE [hd |-> healed, proc |-> "running",
              out |-> [o EXCEPT !.observed = Append(@, duration),
                                !.successLogs = @ + 1]]

\* lines 310-332, when the healer's path measured duration: log.Fatalf ends the
\* process, so the statements after it do not run
TriggerHealing(d, o, isCritical, duration) ==
    LET healed == IF isCritical THEN ExecuteHardReversion(d)
                  ELSE ExecuteSoftPatch(d, RoundF(32 * Unit, 10))
    IN  IF duration > HealingLimit
        THEN [hd |-> healed, proc |-> "exited",
              out |-> [o EXCEPT !.fatalLogs = @ + 1]]
        ELSE [hd |-> healed, proc |-> "running",
              out |-> [o EXCEPT !.observed = Append(@, duration),
                                !.successLogs = @ + 1]]

ThInit ==
    /\ \E windowSize \in WindowSizes, threshold \in Thresholds :
          hd = NewDetector(windowSize, threshold)
    /\ proc = "running"
    /\ out = NoOutput
    /\ triggers = <<>>
    /\ hdBefore = hd

DoTriggerHealing ==
    /\ proc = "running"
    /\ Len(triggers) < MaxTriggers
    /\ \E isCritical \in BOOLEAN, duration \in HealDurations :
          LET call == TriggerHealing(hd, out, isCritical, duration)
          IN  /\ hd' = call.hd
              /\ proc' = call.proc
              /\ out' = call.out
              /\ triggers' = Append(triggers, [isCritical |-> isCritical,
                                               duration |-> duration])
              /\ hdBefore' = hd

\* the detector the healer holds is the one the service feeds
HealerProcessData ==
    /\ proc = "running"
    /\ Len(hd.dataWindow) < MaxHealerData
    /\ \E dp \in DataPoints : hd' = ProcessData(hd, dp).det
    /\ UNCHANGED <<proc, out, triggers, hdBefore>>

\* ------------------------------------------------------------------------
\* BlueTeam's on-demand healing (src/internal/blueteam/blueteam.go) and the
\* Auditor's ledger (src/internal/audit/audit.go), one call at a time.  The
\* clock readings in HealingAction.ID, HealingAction.Timestamp and
\* AuditEvent.Timestamp are left out.
\* ------------------------------------------------------------------------
MaxActionsCfg == 2
MaxHeals == 2
MaxLedger == 3

DefaultMaxActions == 1000
DefaultMaxEvents == 100000
\* LogEvent removes at least this many events when the ledger is over its limit
MinRemoveCount == 100

IssueTypes == {"high_latency", "high_error_rate", "resource_exhaustion",
               "compliance_failure", "fault_injection"}
HealingStrategies == {"reset_detector", "circuit_breaker", "fallback_mode",
                      "resource_cleanup", "config_reload"}
\* values of type IssueType and HealingStrategy a caller can pass
IssueValues == {"high_latency", "compliance_failure", "disk_full"}
StrategyValues == HealingStrategies \cup {"reboot"}
BlueConfigs == [MaxActions : 0..MaxActionsCfg, HealingEnabled : BOOLEAN]
\* LogCompliance as the service calls it
\* (the Greek letters of the protocol names spelled out)
Protocols == {[protocol |-> "gamma-Axiomatic Control", axiom |-> "A-2"],
              [protocol |-> "zeta-Hypervisor", axiom |-> "A-4"]}

VARIABLES
    bt,          \* the BlueTeam
    auditor,     \* the Auditor
    btRet,       \* what the last HealOnDemand returned (NilAction before the first)
    heals        \* the HealOnDemand calls so far: issueType and strategy

btVars == <<bt, auditor, btRet, heals>>

NewBlueTeam(config) ==
    [healingActions |-> <<>>,
     maxActions |-> IF config.MaxActions <= 0 THEN DefaultMaxActions ELSE config.MaxActions,
     healingEnabled |-> config.HealingEnabled]

\* a variant of ExecuteHealingStrategy that accepts every strategy
ExecuteHealingStrategyLenient(strategy, action) ==
    CASE strategy = "reset_detector" ->
            [ok |-> TRUE, action |-> [action EXCEPT !.Description = "detector reset"]]
      [] strategy = "circuit_breaker" ->
            [ok |-> TRUE, action |-> [action EXCEPT !.Description = "circuit breaker"]]
      [] strategy = "fallback_mode" ->
            [ok |-> TRUE, action |-> [action EXCEPT !.Description = "fallback mode"]]
      [] strategy = "resource_cleanup" ->
            [ok |-> TRUE, action |-> [action EXCEPT !.Description = "resource cleanup"]]
      [] strategy = "config_reload" ->
            [ok |-> TRUE, action |-> [action EXCEPT !.Description = "configuration reloaded"]]
      [] OTHER ->
            [ok |-> TRUE, action |-> action]

\* lines 214-270: whether the strategy succeeded, and the action as the
\* strategy left it (Description stands for the suffix the strategy appends)
ExecuteHealingStrategy(strategy, action) ==
    CASE strategy = "reset_detector" ->
            [ok |-> TRUE, action |-> [action EXCEPT !.Description = "detector reset"]]
      [] strategy = "circuit_breaker" ->
            [ok |-> TRUE, action |-> [action EXCEPT !.Description = "circuit breaker"]]
      [] strategy = "fallback_mode" ->
            [ok |-> TRUE, action |-> [action EXCEPT !.Description = "fallback mode"]]
      [] strategy = "resource_cleanup" ->
            [ok |-> TRUE, action |-> [action EXCEPT !.Description = "resource cleanup"]]
      [] strategy = "config_reload" ->
            [ok |-> TRUE, action |-> [action EXCEPT !.Description = "configuration reloaded"]]
      [] OTHER ->
            [ok |-> FALSE, action |-> [action EXCEPT !.Error = "Unknown healing strategy"]]

\* lines 178-211: the BlueTeam afterwards and the action returned
InitiateHealing(b, issueType, strategy) ==
    LET action   == [Type |-> issueType, Strategy |-> strategy, Description |-> "",
                     Status |-> "initiated", Success |-> FALSE, Error |-> ""]
        executed == ExecuteHealingStrategy(strategy, action)
        done     == IF executed.ok
                    THEN [executed.action EXCEPT !.Status = "completed", !.Success = TRUE]
                    ELSE [executed.action EXCEPT !.Status = "failed", !.Success = FALSE,
                                                 !.Error = "Healing strategy execution failed"]
        recorded == Append(b.healingActions, done)
    IN  [bt |-> [b EXCEPT !.healingActions =
                    IF Len(recorded) > b.maxActions THEN Tail(recorded) ELSE recorded],
         action |-> done]

HealOnDemand(b, issueType, strategy) == InitiateHealing(b, issueType, strategy)

\* the value of a *HealingAction that points to nothing
NilAction ==
    [Type |-> "", Strategy |-> "", Description |-> "", Status |-> "nil",
     Success |-> FALSE, Error |-> ""]

\* a variant of StampEvent that keeps the ID the caller supplied
StampEventKeepingID(event, counter) == event

\* lines 112-113: the ID the event is stored under ends in the counter value
StampEvent(event, counter) == [event EXCEPT !.ID = counter]

\* lines 106-138; the slice expression of line 125 panics when removeCount
\* exceeds the length
LogEvent(a, event) ==
    LET counter     == a.eventCounter + 1
        appended    == Append(a.events, StampEvent(event, counter))
        tenth       == a.maxEvents \div 10
        removeCount == IF tenth < MinRemoveCount THEN MinRemoveCount ELSE tenth
    IN  IF Len(appended) > a.maxEvents
        THEN IF removeCount <= Len(appended)
             THEN [a EXCEPT !.eventCounter = counter,
                            !.events = SubSeq(appended, removeCount + 1, Len(appended))]
             ELSE [a EXCEPT !.eventCounter = counter, !.events = appended,
                            !.panicked = TRUE]
        ELSE [a EXCEPT !.eventCounter = counter, !.events = appended]

\* lines 69-103, with the startup event it logs
NewAuditor(config) ==
    LogEvent([events |-> <<>>,
              maxEvents |-> IF config.MaxEvents <= 0 THEN DefaultMaxEvents
                            ELSE config.MaxEvents,
              eventCounter |-> 0, panicked |-> FALSE],
             [ID |-> 0, Type |-> "security", Status |-> "compliant",
              Component |-> "auditor", Protocol |-> "", Message |-> "Audit system initialized"])

LogCompliance(a, protocol, axiom, compliant) ==
    LogEvent(a, [ID |-> 0, Type |-> "compliance",
                 Status |-> IF compliant THEN "compliant" ELSE "non_compliant",
                 Component |-> "hypervisor", Protocol |-> protocol,
                 Message |-> IF compliant THEN axiom \o " compliance check"
                             ELSE axiom \o " NON-COMPLIANT"])

BtInit ==
    /\ \E config \in BlueConfigs : bt = NewBlueTeam(config)
    /\ auditor = NewAuditor([MaxEvents |-> 0])
    /\ btRet = NilAction
    /\ heals = <<>>

DoHealOnDemand ==
    /\ Len(heals) < MaxHeals
    /\ \E issueType \in IssueValues, strategy \in StrategyValues :
          LET call == HealOnDemand(bt, issueType, strategy)
          IN  /\ bt' = call.bt
              /\ btRet' = call.action
              /\ heals' = Append(heals, [issueType |-> issueType, strategy |-> strategy])
    /\ UNCHANGED auditor

DoLogCompliance ==
    /\ auditor.eventCounter < MaxLedger
    /\ \E p \in Protocols, compliant \in BOOLEAN :
          auditor' = LogCompliance(auditor, p.protocol, p.axiom, compliant)
    /\ UNCHANGED <<bt, btRet, heals>>

\* ------------------------------------------------------------------------
\* BlueTeam's monitoring goroutine (src/internal/blueteam/blueteam.go, lines
\* 86-175): StartMonitoring is called once; the goroutine it starts, the
\* ticker and StopMonitoring callers take steps in any order.
\* ------------------------------------------------------------------------
MaxChecks == 6
MaxStops == 2

\* Config.MaxActions 0 (the default), 3 and 20, healing enabled or not
LoopConfigs == [MaxActions : {0, 3, 20}, HealingEnabled : BOOLEAN]

\* performHealthCheck, lines 127-130: the four checks and what each of them heals
HealthChecks ==
    <<[issueType |-> "high_latency", strategy |-> "circuit_breaker"],
      [issueType |-> "high_error_rate", strategy |-> "fallback_mode"],
      [issueType |-> "resource_exhaustion", strategy |-> "resource_cleanup"],
      [issueType |-> "compliance_failure", strategy |-> "config_reload"]>>

VARIABLES
    loop,        \* the monitoring goroutine: "none" before it is started, "spawned",
                 \* "select" (waiting in the select), "checking", "stopping", "stopped"
    ticker,      \* the time.Ticker: "none", "running" or "stopped"
    checks,      \* health checks begun so far
    checkStep,   \* how many of the four checks the running health check has made
    inserted,    \* actions given to the healing history so far
    stops,       \* StopMonitoring calls made so far
    stopper,     \* the last StopMonitoring caller: "idle" once it has returned,
                 \* "blocked" while it waits in the call
    stopSeen,    \* a StopMonitoring call has returned since the goroutine was started
    lateChecks   \* health checks begun after such a call returned

loopVars == <<loop, ticker, checks, checkStep, inserted, stops, stopper, stopSeen, lateChecks>>

\* lines 88-93: whether the goroutine is started
StartMonitoring(b) == b.healingEnabled

\* a variant of StopSelect without the default case
StopSelectBlocking(loopAt) == IF loopAt = "select" THEN "delivered" ELSE "blocked"

\* lines 113-116: the send on the unbuffered channel goes through when the
\* goroutine is waiting in its select, otherwise the default case is taken
StopSelect(loopAt) == IF loopAt = "select" THEN "delivered" ELSE "default"

LoopInit ==
    /\ loop = "none"
    /\ ticker = "none"
    /\ checks = 0
    /\ checkStep = 0
    /\ inserted = 0
    /\ stops = 0
    /\ stopper = "idle"
    /\ stopSeen = FALSE
    /\ lateChecks = 0

DoStartMonitoring ==
    /\ loop = "none"
    /\ loop' = IF StartMonitoring(bt) THEN "spawned" ELSE "none"
    /\ UNCHANGED <<bt, ticker, checks, checkStep, inserted, stops, stopper, stopSeen, lateChecks>>

\* lines 94-95: ticker := time.NewTicker(bt.monitorInterval)
LoopNewTicker ==
    /\ loop = "spawned"
    /\ ticker' = "running"
    /\ loop' = "select"
    /\ UNCHANGED <<bt, checks, checkStep, inserted, stops, stopper, stopSeen, lateChecks>>

\* lines 101-102 and 121: the ticker fires and performHealthCheck begins
LoopTick ==
    /\ loop = "select"
    /\ ticker = "running"
    /\ checks < MaxChecks
    /\ loop' = "checking"
    /\ checks' = checks + 1
    /\ checkStep' = 0
    /\ lateChecks' = IF stopSeen THEN lateChecks + 1 ELSE lateChecks
    /\ UNCHANGED <<bt, ticker, inserted, stops, stopper, stopSeen>>

\* lines 127-130: the next of the four checks, each one initiateHealing; after
\* the fourth the goroutine is back in its select
LoopHealthCheck ==
    /\ loop = "checking"
    /\ LET check == HealthChecks[checkStep + 1]
       IN  bt' = InitiateHealing(bt, check.issueType, check.strategy).bt
    /\ inserted' = inserted + 1
    /\ checkStep' = checkStep + 1
    /\ loop' = IF checkStep + 1 = Len(HealthChecks) THEN "select" ELSE "checking"
    /\ UNCHANGED <<ticker, checks, stops, stopper, stopSeen, lateChecks>>

\* lines 112-117
DoStopMonitoring ==
    /\ stops < MaxStops
    /\ stopper = "idle"
    /\ stops' = stops + 1
    /\ LET sent == StopSelect(loop)
       IN  /\ loop' = IF sent = "delivered" THEN "stopping" ELSE loop
           /\ stopper' = IF sent = "blocked" THEN "blocked" ELSE "idle"
           /\ stopSeen' = (stopSeen \/ (loop # "none" /\ sent # "blocked"))
    /\ UNCHANGED <<bt, ticker, checks, checkStep, inserted, lateChecks>>

\* lines 103-105 and the deferred ticker.Stop() of line 95
LoopStop ==
    /\ loop = "stopping"
    /\ ticker' = "stopped"
    /\ loop' = "stopped"
    /\ UNCHANGED <<bt, checks, checkStep, inserted, stops, stopper, stopSeen, lateChecks>>

\* EnableHealing, lines 338-344
EnableHealing(b) == [b EXCEPT !.healingEnabled = TRUE]

\* a variant of DisableHealing that also drops the healing history
DisableHealingClearing(b) == [b EXCEPT !.healingEnabled = FALSE, !.healingActions = <<>>]

\* DisableHealing, lines 347-353
DisableHealing(b) == [b EXCEPT !.healingEnabled = FALSE]

\* EnableHealing, DisableHealing and HealOnDemand take bt.mu, which
\* performHealthCheck holds from its first check to its last
DoEnableHealing ==
    /\ loop # "checking"
    /\ bt' = EnableHealing(bt)
    /\ UNCHANGED <<auditor, btRet, heals, loopVars>>

DoDisableHealing ==
    /\ loop # "checking"
    /\ bt' = DisableHealing(bt)
    /\ UNCHANGED <<auditor, btRet, heals, loopVars>>

MaxFlagChecks == 2
MaxFlagHeals == 1

\* a health check begins while at most MaxFlagChecks have begun
FlagTick == checks < MaxFlagChecks /\ LoopTick

\* HealOnDemand("high_latency", strategy) with a known and an unknown strategy
HealOnDemandBesideLoop ==
    /\ loop # "checking"
    /\ Len(heals) < MaxFlagHeals
    /\ \E strategy \in {"circuit_breaker", "reboot"} :
          LET call == HealOnDemand(bt, "high_latency", strategy)
          IN  /\ bt' = call.bt
              /\ btRet' = call.action
              /\ heals' = Append(heals, [issueType |-> "high_latency", strategy |-> strategy])
    /\ UNCHANGED <<auditor, loopVars>>

\* ------------------------------------------------------------------------
\* The Auditor under concurrent callers (src/internal/audit/audit.go):
\* goroutines call LogEvent, GetEvents and Close; a.mu is taken and released
\* in steps of their own, the in-memory part of LogEvent is one step under
\* the lock, the write to the output file is another.
\* ------------------------------------------------------------------------
\* Config.MaxEvents 0 (the default), 1 and 2
AuditConfigs == [MaxEvents : {0, 1, 2}]

\* events callers hand to LogEvent, with and without an ID of their own
AuditEvents ==
    {[ID |-> 0, Type |-> "compliance", Status |-> "compliant", Component |-> "hypervisor",
      Protocol |-> "zeta-Hypervisor", Message |-> "A-4 compliance check"],
     [ID |-> 7, Type |-> "decision", Status |-> "info", Component |-> "detector",
      Protocol |-> "", Message |-> "Anomaly detection decision"]}

\* what Close logs, lines 360-368
ShutdownEvent ==
    [ID |-> 0, Type |-> "security", Status |-> "compliant", Component |-> "auditor",
     Protocol |-> "", Message |-> "Audit system shutdown"]

Limits == {-1, 0, 1, 2, 5}

VARIABLES
    amu,       \* a.mu: the goroutine holding the lock, 0 when it is free
    apc,       \* per goroutine: "idle", "le_lock", "le_body", "le_write",
               \* "le_unlock", "cl_lock", "panicked", "closed"
    aarg,      \* per goroutine: the event of its LogEvent call, and whether the
               \* call was made by Close
    afile,     \* the output file: the IDs of the events written, and whether it is closed
    got        \* the last GetEvents call: its limit, its result and the ledger it read

audVars == <<amu, apc, aarg, afile, got>>

NoCall == [event |-> ShutdownEvent, inClose |-> FALSE]

NoEvents == [called |-> FALSE, limit |-> 0, result |-> <<>>, ledger |-> <<>>]

\* a variant of GetEvents that returns the oldest events
GetEventsOldest(a, limit) ==
    LET n   == Len(a.events)
        lim == IF limit <= 0 \/ limit > n THEN n ELSE limit
    IN  SubSeq(a.events, 1, lim)

\* lines 288-305
GetEvents(a, limit) ==
    LET n     == Len(a.events)
        lim   == IF limit <= 0 \/ limit > n THEN n ELSE limit
        start == IF n - lim < 0 THEN 0 ELSE n - lim
    IN  SubSeq(a.events, start + 1, start + lim)

AuInit ==
    /\ amu = 0
    /\ apc = [g \in Goroutines |-> "idle"]
    /\ aarg = [g \in Goroutines |-> NoCall]
    /\ afile = [written |-> <<1>>, closed |-> FALSE]
    /\ got = NoEvents

\* a goroutine calls LogEvent; a panic of an earlier call has ended the process
CallLogEvent(g) ==
    /\ apc[g] = "idle"
    /\ ~auditor.panicked
    /\ auditor.eventCounter < MaxLedger
    /\ \E event \in AuditEvents : aarg' = [aarg EXCEPT ![g] = [event |-> event, inClose |-> FALSE]]
    /\ apc' = [apc EXCEPT ![g] = "le_lock"]
    /\ UNCHANGED <<auditor, amu, afile, got>>

\* line 107: a.mu.Lock()
LogEventLock(g) ==
    /\ apc[g] = "le_lock"
    /\ amu = 0
    /\ amu' = g
    /\ apc' = [apc EXCEPT ![g] = "le_body"]
    /\ UNCHANGED <<auditor, aarg, afile, got>>

\* lines 111-126: count, stamp, append, trim; a panic of line 125 runs the
\* deferred Unlock and leaves LogEvent
LogEventBody(g) ==
    /\ apc[g] = "le_body"
    /\ auditor' = LogEvent(auditor, aarg[g].event)
    /\ IF auditor'.panicked
       THEN amu' = 0 /\ apc' = [apc EXCEPT ![g] = "panicked"]
       ELSE amu' = amu /\ apc' = [apc EXCEPT ![g] = "le_write"]
    /\ UNCHANGED <<aarg, afile, got>>

\* lines 129-131: a.encoder.Encode(event)
LogEventWrite(g) ==
    /\ apc[g] = "le_write"
    /\ afile' = IF afile.closed THEN afile
                ELSE [afile EXCEPT !.written = Append(@, auditor.eventCounter)]
    /\ apc' = [apc EXCEPT ![g] = "le_unlock"]
    /\ UNCHANGED <<auditor, amu, aarg, got>>

\* line 108: the deferred a.mu.Unlock(); when Close made the call, Close goes
\* on to lines 370 and 357: outputFile.Close() and its own deferred Unlock
LogEventUnlock(g) ==
    /\ apc[g] = "le_unlock"
    /\ amu' = 0
    /\ IF aarg[g].inClose
       THEN /\ afile' = [afile EXCEPT !.closed = TRUE]
            /\ apc' = [apc EXCEPT ![g] = "closed"]
       ELSE /\ afile' = afile
            /\ apc' = [apc EXCEPT ![g] = "idle"]
    /\ UNCHANGED <<auditor, aarg, got>>

\* lines 288-305, all of it under the read lock
DoGetEvents(g) ==
    /\ apc[g] = "idle"
    /\ ~auditor.panicked
    /\ amu = 0
    /\ \E limit \in Limits :
          got' = [called |-> TRUE, limit |-> limit, result |-> GetEvents(auditor, limit),
                  ledger |-> auditor.events]
    /\ UNCHANGED <<auditor, amu, apc, aarg, afile>>

\* a goroutine calls Close
CallClose(g) ==
    /\ apc[g] = "idle"
    /\ ~auditor.panicked
    /\ apc' = [apc EXCEPT ![g] = "cl_lock"]
    /\ UNCHANGED <<auditor, amu, aarg, afile, got>>

\* lines 356-368: a.mu.Lock(), then the call of LogEvent with the lock held
CloseLock(g) ==
    /\ apc[g] = "cl_lock"
    /\ amu = 0
    /\ amu' = g
    /\ aarg' = [aarg EXCEPT ![g] = [event |-> ShutdownEvent, inClose |-> TRUE]]
    /\ apc' = [apc EXCEPT ![g] = "le_lock"]
    /\ UNCHANGED <<auditor, afile, got>>

\* ------------------------------------------------------------------------
\* The RedTeam under concurrent callers (src/internal/redteam/redteam.go):
\* goroutines call GetFaultStats, GetActiveFaults and the operations that
\* take the write lock; every RLock, RUnlock and Lock of rt.mu is a step.
\* sync.RWMutex: a writer that has called Lock keeps new readers out while it
\* waits for the readers inside to leave.
\* ------------------------------------------------------------------------
WriteOps == {"ConfigureFault", "EnableFault", "DisableFault", "CleanupExpiredFaults"}

VARIABLES
    rmu,      \* rt.mu: the number of read locks held, and the goroutine that has
              \* called Lock (0 when there is none)
    rgo       \* per goroutine: where it is ("idle", "gs_rlock", "ga_rlock",
              \* "ga_range", "ga_relock", "gs_return", "w_wait"), whether its
              \* GetActiveFaults was called by GetFaultStats, the kinds its range
              \* loop has still to visit, the faults collected, the read locks
              \* it holds, the write operation it is making and what its last
              \* call returned

redConcVars == <<rmu, rgo>>

Resting ==
    [pc |-> "idle", nested |-> FALSE, left |-> {}, active |-> <<>>, held |-> 0,
     op |-> "", kind |-> "", ret |-> <<>>]

\* RWMutex.RLock goes through when no writer has called Lock
RWCanRLock(m) == m.writer = 0

\* RWMutex.Lock returns once the readers inside have left
RWCanLock(m) == m.readers = 0

RedConcInit ==
    /\ rmu = [readers |-> 0, writer |-> 0]
    /\ rgo = [g \in Goroutines |-> Resting]

\* a goroutine that cannot take its next step until another one releases rt.mu
Blocked(g) ==
    \/ rgo[g].pc \in {"gs_rlock", "ga_rlock", "ga_relock"} /\ ~RWCanRLock(rmu)
    \/ rgo[g].pc = "w_wait" /\ ~RWCanLock(rmu)

CallGetFaultStats(g) ==
    /\ rgo[g].pc = "idle"
    /\ rgo' = [rgo EXCEPT ![g] = [Resting EXCEPT !.pc = "gs_rlock"]]
    /\ UNCHANGED <<rt, rmu>>

CallGetActiveFaults(g) ==
    /\ rgo[g].pc = "idle"
    /\ rgo' = [rgo EXCEPT ![g] = [Resting EXCEPT !.pc = "ga_rlock"]]
    /\ UNCHANGED <<rt, rmu>>

\* line 170: rt.mu.RLock(), then the call of rt.GetActiveFaults() of line 175
GetFaultStatsRLock(g) ==
    /\ rgo[g].pc = "gs_rlock"
    /\ RWCanRLock(rmu)
    /\ rmu' = [rmu EXCEPT !.readers = @ + 1]
    /\ rgo' = [rgo EXCEPT ![g].pc = "ga_rlock", ![g].nested = TRUE, ![g].held = @ + 1]
    /\ UNCHANGED rt

\* lines 152 and 159: rt.mu.RLock() on entry and after each look at the config
GetActiveFaultsRLock(g) ==
    /\ rgo[g].pc \in {"ga_rlock", "ga_relock"}
    /\ RWCanRLock(rmu)
    /\ rmu' = [rmu EXCEPT !.readers = @ + 1]
    /\ rgo' = [rgo EXCEPT ![g].pc = "ga_range",
                          ![g].held = @ + 1,
                          ![g].left = IF rgo[g].pc = "ga_rlock"
                                      THEN DOMAIN rt.activeFaults ELSE @]
    /\ UNCHANGED rt

\* lines 156-164: the next kind of the range loop (RUnlock, read its config,
\* decide whether it is reported), or the end of the loop: the deferred
\* RUnlock and the return
GetActiveFaultsRange(g) ==
    /\ rgo[g].pc = "ga_range"
    /\ rmu' = [rmu EXCEPT !.readers = @ - 1]
    /\ LET todo == rgo[g].left \cap DOMAIN rt.activeFaults
       IN  IF todo = {}
           THEN rgo' = [rgo EXCEPT ![g].pc = IF rgo[g].nested THEN "gs_return" ELSE "idle",
                                   ![g].held = @ - 1,
                                   ![g].left = {},
                                   ![g].ret = rgo[g].active]
           ELSE \E faultType \in todo :
                   rgo' = [rgo EXCEPT
                             ![g].pc = "ga_relock",
                             ![g].held = @ - 1,
                             ![g].left = todo \ {faultType},
                             ![g].active =
                                 IF faultType \in DOMAIN GetActiveFaults(rt, now)
                                 THEN Store(@, faultType, rt.activeFaults[faultType])
                                 ELSE @]
    /\ UNCHANGED rt

\* lines 176-179 and 171: getFaultConfigsSummary, the deferred RUnlock, return
GetFaultStatsReturn(g) ==
    /\ rgo[g].pc = "gs_return"
    /\ rmu' = [rmu EXCEPT !.readers = @ - 1]
    /\ rgo' = [rgo EXCEPT ![g] =
                  [Resting EXCEPT !.ret =
                      [configured_faults |-> Cardinality(DOMAIN rt.faultConfigs),
                       active_faults |-> Cardinality(DOMAIN rgo[g].ret)]]]
    /\ UNCHANGED rt

\* rt.mu.Lock() of ConfigureFault (line 51), EnableFault (63), DisableFault (74)
\* or CleanupExpiredFaults (229): from now on new readers wait
WriteLock(g) ==
    /\ rgo[g].pc = "idle"
    /\ rmu.writer = 0
    /\ rmu' = [rmu EXCEPT !.writer = g]
    /\ \E op \in WriteOps, faultType \in FaultTypes :
          rgo' = [rgo EXCEPT ![g] = [Resting EXCEPT !.pc = "w_wait", !.op = op,
                                                     !.kind = faultType]]
    /\ UNCHANGED rt

\* the readers have left: the body of the operation and its deferred Unlock
WriteBody(g) ==
    /\ rgo[g].pc = "w_wait"
    /\ RWCanLock(rmu)
    /\ rt' = CASE rgo[g].op = "ConfigureFault" ->
                      ConfigureFault(rt, [Type |-> rgo[g].kind, Probability |-> 100,
                                          Duration |-> 1, Enabled |-> TRUE])
               [] rgo[g].op = "EnableFault" -> EnableFault(rt, rgo[g].kind)
               [] rgo[g].op = "DisableFault" -> DisableFault(rt, rgo[g].kind)
               [] OTHER -> CleanupExpiredFaults(rt, now)
    /\ rmu' = [rmu EXCEPT !.writer = 0]
    /\ rgo' = [rgo EXCEPT ![g] = Resting]

\* ------------------------------------------------------------------------
\* The detector on given runs of values (src/anomaly/anomaly.go): runs like
\* those of the package's tests, whose values (10000, its square, the sums of
\* 500 values) need more significant bits than Prec gives.  Here a float64 is a
\* binary floating-point number m * 2^e with a significand of HiPrec bits
\* (2^(HiPrec-1) <= |m| < 2^HiPrec, or m = 0) and round-to-nearest-even; every
\* intermediate integer stays below 2^31.
\* ------------------------------------------------------------------------
HiPrec == 14

HiZero == [m |-> 0, e |-> 0]

RECURSIVE BitLen(_)
BitLen(n) == IF n = 0 THEN 0 ELSE 1 + BitLen(n \div 2)

\* the float64 nearest to sign * (num / den) * 2^e, for num >= 0 and den > 0;
\* den is 1 unless num \div den has HiPrec bits already
HiRound(sign, num, den, e) ==
    LET b == BitLen(num \div den)
        k == b - HiPrec
        r == IF k > 0 THEN RoundNearestEven(num, den * 2^k) ELSE RoundNearestEven(num, den)
    IN  IF num = 0 THEN HiZero
        ELSE IF k < 0 THEN [m |-> sign * num * 2^(-k), e |-> e + k]
        ELSE IF r = 2^HiPrec THEN [m |-> sign * 2^(HiPrec - 1), e |-> e + k + 1]
        ELSE [m |-> sign * r, e |-> e + k]

Sign(x) == IF x < 0 THEN -1 ELSE 1

\* float64(n)
HiFromInt(n) == HiRound(Sign(n), Abs(n), 1, 0)

HiNeg(a) == [a EXCEPT !.m = -a.m]

HiAbs(a) == [a EXCEPT !.m = Abs(a.m)]

\* a + b for |a| >= |b|, b # 0: exact sum, then rounded; when b lies wholly
\* below the last bit of a the sum rounds to a, or to the number just below
\* it in magnitude when a is a power of two and b takes off more than a
\* quarter of its last bit
HiAddOrdered(a, b) ==
    LET d   == a.e - b.e
        sum == a.m * 2^d + b.m
    IN  IF d <= HiPrec THEN HiRound(Sign(sum), Abs(sum), 1, b.e)
        ELSE IF /\ Sign(a.m) # Sign(b.m)
                /\ Abs(a.m) = 2^(HiPrec - 1)
                /\ d = HiPrec + 1
                /\ Abs(b.m) > 2^(HiPrec - 1)
             THEN [m |-> Sign(a.m) * (2^HiPrec - 1), e |-> a.e - 1]
        ELSE a

\* a + b
HiAdd(a, b) ==
    IF a.m = 0 THEN b
    ELSE IF b.m = 0 THEN a
    ELSE IF a.e >= b.e THEN HiAddOrdered(a, b) ELSE HiAddOrdered(b, a)

\* a - b
HiSub(a, b) == HiAdd(a, HiNeg(b))

\* a * b
HiMul(a, b) == HiRound(Sign(a.m) * Sign(b.m), Abs(a.m) * Abs(b.m), 1, a.e + b.e)

\* a / b for b # 0
HiDiv(a, b) ==
    IF Abs(a.m) >= Abs(b.m)
    THEN HiRound(Sign(a.m) * Sign(b.m), Abs(a.m) * 2^(HiPrec - 1), Abs(b.m),
                 a.e - b.e - (HiPrec - 1))
    ELSE HiRound(Sign(a.m) * Sign(b.m), Abs(a.m) * 2^HiPrec, Abs(b.m), a.e - b.e - HiPrec)

\* a variant of HiSqrt that returns its argument
HiSqrtIdentity(a) == a

\* math.Sqrt(a) for a >= 0
HiSqrt(a) ==
    LET k == IF (a.e - HiPrec) % 2 = 0 THEN HiPrec ELSE HiPrec - 1
        n == a.m * 2^k
        r == ISqrt(n)
    IN  IF a.m = 0 THEN HiZero
        ELSE HiRound(1, IF n > r * r + r THEN r + 1 ELSE r, 1, (a.e - k) \div 2)

\* a > b: the difference of two floats rounds to zero only when they are equal
HiGt(a, b) == HiSub(a, b).m > 0

\* math.MaxFloat64
HiMaxFloat64 == [m |-> 2^HiPrec - 1, e |-> 1024 - HiPrec]

NewDetector64(windowSize, threshold) ==
    [WindowSize |-> windowSize, Threshold |-> threshold,
     dataWindow |-> <<>>, sum |-> HiZero, sumOfSquares |-> HiZero]

\* ProcessData, lines 42-47
Evict64(d) ==
    IF Len(d.dataWindow) >= d.WindowSize
    THEN LET oldValue == d.dataWindow[1]
         IN  [d EXCEPT !.sum = HiSub(@, oldValue),
                       !.sumOfSquares = HiSub(@, HiMul(oldValue, oldValue)),
                       !.dataWindow = Tail(@)]
    ELSE d

\* ProcessData, lines 49-51
Insert64(d, newValue) ==
    [d EXCEPT !.sum = HiAdd(@, newValue),
              !.sumOfSquares = HiAdd(@, HiMul(newValue, newValue)),
              !.dataWindow = Append(@, newValue)]

\* ProcessData, lines 53-77
Evaluate64(d, newValue) ==
    LET currentSize == Len(d.dataWindow)
        mean     == HiDiv(d.sum, HiFromInt(currentSize))
        rawVar   == HiSub(HiDiv(d.sumOfSquares, HiFromInt(currentSize)), HiMul(mean, mean))
        variance == IF rawVar.m < 0 THEN HiZero ELSE rawVar
        stdDev   == HiSqrt(variance)
        zScore   == HiAbs(HiDiv(HiSub(newValue, mean), stdDev))
    IN  IF currentSize < 2 THEN [isAnomaly |-> FALSE, zScore |-> HiZero]
        ELSE IF stdDev.m = 0
             THEN IF newValue # mean THEN [isAnomaly |-> TRUE, zScore |-> HiMaxFloat64]
                  ELSE [isAnomaly |-> FALSE, zScore |-> HiZero]
             ELSE [isAnomaly |-> HiGt(zScore, d.Threshold), zScore |-> zScore]

ProcessData64(d, value) ==
    LET after == Insert64(Evict64(d), value)
    IN  [det |-> after, ret |-> Evaluate64(after, value)]

\* the values 0, 1, ..., n - 1
Ramp(n) == [i \in 1..n |-> i - 1]

\* n/2
Halves(n) == HiDiv(HiFromInt(n), HiFromInt(2))

\* the runs: windowSize, threshold and values, the last value being the one
\* whose classification is looked at
Runs ==
    {[name |-> "ramp of 499", windowSize |-> 500, threshold |-> Halves(7),
      data |-> Append(Ramp(499), 10000)],
     [name |-> "ramp of 500", windowSize |-> 500, threshold |-> Halves(7),
      data |-> Append(Ramp(500), 10000)],
     [name |-> "very small window", windowSize |-> 2, threshold |-> Halves(2),
      data |-> <<1, 100>>],
     [name |-> "very high threshold", windowSize |-> 10, threshold |-> Halves(20),
      data |-> <<1, 2, 3, 100>>],
     [name |-> "negative values", windowSize |-> 5, threshold |-> Halves(4),
      data |-> <<-10, -11, -12, -100>>]}

\* a run whose threshold is sqrt(windowSize - 1): NewDetector(5, 2.0)
BoundRun ==
    [name |-> "threshold at the bound", windowSize |-> 5, threshold |-> HiFromInt(2),
     data |-> <<3, 3, 3, 3, 6>>]

VARIABLES
    run,       \* the run being made
    rd,        \* its detector
    fed,       \* how many of its values have been given to ProcessData
    rres       \* what the last ProcessData returned

runVars == <<run, rd, fed, rres>>

NoRun == [name |-> "none", windowSize |-> 1, threshold |-> HiZero, data |-> <<>>]

NoResult == [isAnomaly |-> FALSE, zScore |-> HiZero]

RunIdle ==
    /\ run = NoRun
    /\ rd = NewDetector64(1, HiZero)
    /\ fed = 0
    /\ rres = NoResult

RunInit ==
    /\ run \in Runs \cup {BoundRun}
    /\ rd = NewDetector64(run.windowSize, run.threshold)
    /\ fed = 0
    /\ rres = NoResult

\* the next value of the run is given to ProcessData
DoProcessData64 ==
    /\ fed < Len(run.data)
    /\ LET call == ProcessData64(rd, HiFromInt(run.data[fed + 1]))
       IN  /\ rd' = call.det
           /\ rres' = call.ret
    /\ fed' = fed + 1
    /\ UNCHANGED run

\* ------------------------------------------------------------------------
\* ShouldInjectFault step by step (src/internal/redteam/redteam.go:85-115),
\* called by the goroutines while EnableFault and DisableFault run.  The call
\* holds rt.mu three separate times and reads config.Enabled holding nothing;
\* each step below is one critical section or one unlocked read.  No kind is
\* configured again here, so config points to the entry of rt.faultConfigs.
\* ------------------------------------------------------------------------
VARIABLES
    sif          \* per goroutine: where its ShouldInjectFault call is

sifVars == <<sif>>

SifResting == [pc |-> "idle", faultType |-> "latency", exists |-> FALSE,
               ret |-> FALSE, at |-> -1]

SifIdle == sif = [g \in Goroutines |-> SifResting]

SifReturn(g, value) ==
    sif' = [sif EXCEPT ![g] = [@ EXCEPT !.pc = "idle", !.ret = value, !.at = now]]

CallShouldInjectFault(g) ==
    /\ sif[g].pc = "idle"
    /\ \E faultType \in FaultTypes :
        sif' = [sif EXCEPT ![g] = [SifResting EXCEPT !.pc = "config",
                                                     !.faultType = faultType]]
    /\ UNCHANGED rtVars

\* lines 86-88: RLock; config, exists := rt.faultConfigs[faultType]; RUnlock
SifReadConfig(g) ==
    /\ sif[g].pc = "config"
    /\ sif' = [sif EXCEPT ![g] = [@ EXCEPT
                   !.pc = "enabled",
                   !.exists = sif[g].faultType \in DOMAIN rt.faultConfigs]]
    /\ UNCHANGED rtVars

\* lines 90-92: !exists || !config.Enabled, read with rt.mu not held
SifCheckEnabled(g) ==
    /\ sif[g].pc = "enabled"
    /\ IF ~sif[g].exists \/ ~rt.faultConfigs[sif[g].faultType].Enabled
       THEN SifReturn(g, FALSE)
       ELSE sif' = [sif EXCEPT ![g] = [@ EXCEPT !.pc = "active"]]
    /\ UNCHANGED rtVars

\* lines 95-102: RLock; an active entry younger than config.Duration returns
\* true; RUnlock
SifCheckActive(g) ==
    /\ sif[g].pc = "active"
    /\ IF StillActive(rt, sif[g].faultType, now)
       THEN SifReturn(g, TRUE)
       ELSE sif' = [sif EXCEPT ![g] = [@ EXCEPT !.pc = "roll"]]
    /\ UNCHANGED rtVars

\* line 105: rt.rand.Float64() < config.Probability
SifRoll(g) ==
    /\ sif[g].pc = "roll"
    /\ \E draw \in Float64s :
        IF TrialSucceeds(draw, rt.faultConfigs[sif[g].faultType])
        THEN sif' = [sif EXCEPT ![g] = [@ EXCEPT !.pc = "store"]]
        ELSE SifReturn(g, FALSE)
    /\ UNCHANGED rtVars

\* lines 106-111: Lock; rt.activeFaults[faultType] = time.Now(); Unlock;
\* return true
SifStore(g) ==
    /\ sif[g].pc = "store"
    /\ rt' = [rt EXCEPT !.activeFaults = Store(@, sif[g].faultType, now)]
    /\ incident' = [incident EXCEPT ![sif[g].faultType] = now]
    /\ SifReturn(g, TRUE)
    /\ UNCHANGED <<now, rtRet>>

\* ------------------------------------------------------------------------
\* GenerateSBOHReport (src/internal/hypervisor/healing.go:237-266) called
\* while the goroutines record decisions.  The report is put together from
\* GetSBOHMetrics, IsAxiomA2Compliant and IsAxiomA4Compliant, each of which
\* takes and releases h.mu.RLock on its own, and from len(h.latencySamples),
\* read holding nothing.  A read-locked section is one step here: no writer
\* runs beside it.  The order of the unlocked read among the calls is the
\* compiler's choice.
\* ------------------------------------------------------------------------
VARIABLES
    rep          \* the GenerateSBOHReport call: where it is and what it has read

repVars == <<rep>>

RepResting == [pc |-> "idle", metrics |-> ZeroMetrics, a2 |-> FALSE, a4 |-> FALSE,
               counted |-> FALSE, sampleCount |-> 0]

RepIdle == rep = RepResting

CallGenerateSBOHReport ==
    /\ rep.pc \in {"idle", "returned"}
    /\ hcalls < MaxMonCalls
    /\ hcalls' = hcalls + 1
    /\ rep' = [RepResting EXCEPT !.pc = "metrics"]
    /\ UNCHANGED <<hv, mlog, mret, hmu, hpc, harg, hret>>

\* line 238: metrics := h.GetSBOHMetrics()
ReportMetrics ==
    /\ rep.pc = "metrics"
    /\ CanRLock(hmu)
    /\ rep' = [rep EXCEPT !.pc = "a2", !.metrics = GetSBOHMetrics(hv)]
    /\ UNCHANGED <<monVars, monConcVars>>

\* line 249: h.IsAxiomA2Compliant()
ReportA2 ==
    /\ rep.pc = "a2"
    /\ CanRLock(hmu)
    /\ rep' = [rep EXCEPT !.pc = "a4", !.a2 = IsAxiomA2Compliant(hv)]
    /\ UNCHANGED <<monVars, monConcVars>>

\* line 250: h.IsAxiomA4Compliant()
ReportA4 ==
    /\ rep.pc = "a4"
    /\ CanRLock(hmu)
    /\ rep' = [rep EXCEPT !.pc = "built", !.a4 = IsAxiomA4Compliant(hv)]
    /\ UNCHANGED <<monVars, monConcVars>>

\* line 251: len(h.latencySamples), h.mu not held
ReportSampleCount ==
    /\ rep.pc \in {"metrics", "a2", "a4", "built"}
    /\ ~rep.counted
    /\ rep' = [rep EXCEPT !.counted = TRUE, !.sampleCount = Len(hv.latencySamples)]
    /\ UNCHANGED <<monVars, monConcVars>>

\* lines 254-265: the warnings are logged and the report is returned
ReportReturn ==
    /\ rep.pc = "built"
    /\ rep.counted
    /\ rep' = [rep EXCEPT !.pc = "returned"]
    /\ UNCHANGED <<monVars, monConcVars>>

\* ------------------------------------------------------------------------
\* Specifications
\* ------------------------------------------------------------------------
vars == <<detVars, concVars, monVars, monConcVars, p95Vars, rtVars, thVars, btVars, loopVars,
          audVars, redConcVars,
          runVars,
          sifVars,
          repVars>>

seqVars == <<twin, result, twinResult, stats, hist, prevWindow, lastOp>>

ConcIdle ==
    /\ mu = [writer |-> 0, readers |-> {}]
    /\ pc = [g \in Goroutines |-> "idle"]
    /\ arg = [g \in Goroutines |-> 0]
    /\ local = [g \in Goroutines |-> 0]
    /\ ret = [g \in Goroutines |-> NoRet]
    /\ order = <<>>

DetIdle ==
    /\ ad = NewDetector(1, Unit)
    /\ twin = NewDetector(1, Unit)
    /\ result = NoRet
    /\ twinResult = NoRet
    /\ stats = NoStats
    /\ hist = <<>>
    /\ prevWindow = <<>>
    /\ calls = 0
    /\ lastOp = "NewDetector"

MonIdle ==
    /\ hv = NewHypervisor([MaxSamples |-> 0])
    /\ mlog = <<>>
    /\ mret = Returned("NewHypervisor", FALSE, ZeroMetrics)

P95Idle ==
    /\ p95h = NewHypervisor([MaxSamples |-> 0])
    /\ p95in = <<>>
    /\ p95ret = -1

MonConcIdle ==
    /\ hmu = [writer |-> 0, readers |-> {}]
    /\ hpc = [g \in Goroutines |-> "idle"]
    /\ harg = [g \in Goroutines |-> NoSample]
    /\ hret = [g \in Goroutines |-> ZeroMetrics]
    /\ hcalls = 0

RtIdle ==
    /\ rt = NewRedTeam
    /\ now = 0
    /\ incident = [faultType \in FaultTypes |-> -1]
    /\ rtRet = RtReturned("NewRedTeam", "latency", NewRedTeam, -1, FALSE, FALSE, <<>>)

ThIdle ==
    /\ hd = NewDetector(1, Unit)
    /\ proc = "running"
    /\ out = NoOutput
    /\ triggers = <<>>
    /\ hdBefore = hd

BtIdle ==
    /\ bt = NewBlueTeam([MaxActions |-> 0, HealingEnabled |-> FALSE])
    /\ auditor = NewAuditor([MaxEvents |-> 0])
    /\ btRet = NilAction
    /\ heals = <<>>

\* the components a specification does not run stay as constructed
OthersIdle == MonConcIdle /\ RtIdle /\ ThIdle /\ BtIdle /\ LoopInit /\ AuInit /\ RedConcInit
              /\ RepIdle
              /\ SifIdle
              /\ RunIdle

detFrame ==
    <<concVars, monVars, monConcVars, p95Vars, rtVars, thVars, btVars, loopVars, audVars, redConcVars,
     runVars,
     sifVars,
     repVars>>
concFrame ==
    <<seqVars, monVars, monConcVars, p95Vars, rtVars, thVars, btVars, loopVars, audVars, redConcVars,
     runVars,
     sifVars,
     repVars>>
monFrame ==
    <<detVars, concVars, monConcVars, p95Vars, rtVars, thVars, btVars, loopVars, audVars, redConcVars,
     runVars,
     sifVars,
     repVars>>
monConcFrame ==
    <<detVars, concVars, p95Vars, rtVars, thVars, btVars, loopVars, audVars, redConcVars,
     runVars,
     sifVars,
     repVars>>
p95Frame ==
    <<detVars, concVars, monVars, monConcVars, rtVars, thVars, btVars, loopVars, audVars, redConcVars,
     runVars,
     sifVars,
     repVars>>
rtFrame ==
    <<detVars, concVars, monVars, monConcVars, p95Vars, thVars, btVars, loopVars, audVars, redConcVars,
     runVars,
     sifVars,
     repVars>>
thFrame ==
    <<detVars, concVars, monVars, monConcVars, p95Vars, rtVars, btVars, loopVars, audVars, redConcVars,
     runVars,
     sifVars,
     repVars>>
loopFrame == <<detVars, concVars, monVars, monConcVars, p95Vars, rtVars, thVars,
               auditor, btRet, heals, audVars, redConcVars,
     runVars,
     sifVars,
     repVars>>
audFrame == <<detVars, concVars, monVars, monConcVars, p95Vars, rtVars, thVars,
              bt, btRet, heals, loopVars, redConcVars,
     runVars,
     sifVars,
     repVars>>
redConcFrame == <<detVars, concVars, monVars, monConcVars, p95Vars, thVars, btVars,
                  loopVars, audVars, now, incident, rtRet,
     runVars,
     sifVars,
     repVars>>
btFrame ==
    <<detVars, concVars, monVars, monConcVars, p95Vars, rtVars, thVars, loopVars, audVars, redConcVars,
     runVars,
     sifVars,
     repVars>>

\* the detector, one call at a time
Init == DetInit /\ ConcIdle /\ MonIdle /\ P95Idle /\ OthersIdle

Next ==
    \/ DoProcessData /\ UNCHANGED detFrame
    \/ DoGetStats /\ UNCHANGED detFrame
    \/ DoReset /\ UNCHANGED detFrame

Spec == Init /\ [][Next]_vars

\* the detector called from several goroutines
ConcNext ==
    \E g \in Goroutines :
        \/ CallProcessData(g) /\ UNCHANGED concFrame
        \/ ProcessDataLock(g) /\ UNCHANGED concFrame
        \/ ProcessDataEvict(g) /\ UNCHANGED concFrame
        \/ ProcessDataInsert(g) /\ UNCHANGED concFrame
        \/ ProcessDataEvaluate(g) /\ UNCHANGED concFrame
        \/ ProcessDataUnlock(g) /\ UNCHANGED concFrame
        \/ CallGetStats(g) /\ UNCHANGED concFrame
        \/ GetStatsRLock(g) /\ UNCHANGED concFrame
        \/ GetStatsSize(g) /\ UNCHANGED concFrame
        \/ GetStatsCompute(g) /\ UNCHANGED concFrame
        \/ GetStatsRUnlock(g) /\ UNCHANGED concFrame
        \/ CallReset(g) /\ UNCHANGED concFrame
        \/ ResetLock(g) /\ UNCHANGED concFrame
        \/ ResetWindow(g) /\ UNCHANGED concFrame
        \/ ResetSums(g) /\ UNCHANGED concFrame
        \/ ResetUnlock(g) /\ UNCHANGED concFrame

ConcSpec == Init /\ [][ConcNext]_vars

\* the compliance monitor, one call at a time
MonSpecInit == MonInit /\ DetIdle /\ ConcIdle /\ P95Idle /\ OthersIdle

MonNext ==
    \/ DoRecordDecision /\ UNCHANGED monFrame
    \/ DoGetSBOHMetrics /\ UNCHANGED monFrame
    \/ DoIsAxiomA2Compliant /\ UNCHANGED monFrame
    \/ DoIsAxiomA4Compliant /\ UNCHANGED monFrame

MonSpec == MonSpecInit /\ [][MonNext]_vars

\* calculateP95Latency as a function of the window
P95SpecInit == P95Init /\ DetIdle /\ ConcIdle /\ MonIdle /\ OthersIdle

P95Next == DoCalculateP95Latency /\ UNCHANGED p95Frame

P95Spec == P95SpecInit /\ [][P95Next]_vars

\* the compliance monitor called from several goroutines
MonConcNext ==
    \E g \in Goroutines :
        \/ CallRecordDecision(g) /\ UNCHANGED monConcFrame
        \/ RecordDecisionLock(g) /\ UNCHANGED monConcFrame
        \/ RecordDecisionAppend(g) /\ UNCHANGED monConcFrame
        \/ RecordDecisionTrim(g) /\ UNCHANGED monConcFrame
        \/ UpdateMetricsRatios(g) /\ UNCHANGED monConcFrame
        \/ UpdateMetricsTotal(g) /\ UNCHANGED monConcFrame
        \/ UpdateMetricsSuccessful(g) /\ UNCHANGED monConcFrame
        \/ UpdateMetricsRevenue(g) /\ UNCHANGED monConcFrame
        \/ RecordDecisionUnlock(g) /\ UNCHANGED monConcFrame
        \/ CallGetSBOHMetrics(g) /\ UNCHANGED monConcFrame
        \/ GetSBOHMetricsRLock(g) /\ UNCHANGED monConcFrame
        \/ GetSBOHMetricsCopy(g) /\ UNCHANGED monConcFrame
        \/ GetSBOHMetricsRUnlock(g) /\ UNCHANGED monConcFrame

MonConcSpec == MonSpecInit /\ [][MonConcNext]_vars

\* the fault injector, one call at a time, as time passes
RedSpecInit == RtInit /\ DetIdle /\ ConcIdle /\ MonIdle /\ P95Idle
                      /\ MonConcIdle /\ ThIdle /\ BtIdle /\ LoopInit /\ AuInit
    /\ RedConcInit
    /\ RunIdle
    /\ SifIdle
    /\ RepIdle

RedNext ==
    \/ Tick /\ UNCHANGED rtFrame
    \/ DoConfigureFault /\ UNCHANGED rtFrame
    \/ DoEnableFault /\ UNCHANGED rtFrame
    \/ DoDisableFault /\ UNCHANGED rtFrame
    \/ DoShouldInjectFault /\ UNCHANGED rtFrame
    \/ DoGetActiveFaults /\ UNCHANGED rtFrame
    \/ DoCleanupExpiredFaults /\ UNCHANGED rtFrame

RedSpec == RedSpecInit /\ [][RedNext]_vars

\* TriggerHealing on the detector in service
HealSpecInit == ThInit /\ DetIdle /\ ConcIdle /\ MonIdle /\ P95Idle
                       /\ MonConcIdle /\ RtIdle /\ BtIdle /\ LoopInit /\ AuInit
    /\ RedConcInit
    /\ RunIdle
    /\ SifIdle
    /\ RepIdle

HealNext ==
    \/ DoTriggerHealing /\ UNCHANGED thFrame
    \/ HealerProcessData /\ UNCHANGED thFrame

HealSpec == HealSpecInit /\ [][HealNext]_vars

\* on-demand healing and the ledger
BlueSpecInit == BtInit /\ DetIdle /\ ConcIdle /\ MonIdle /\ P95Idle
                       /\ MonConcIdle /\ RtIdle /\ ThIdle /\ LoopInit /\ AuInit
    /\ RedConcInit
    /\ RunIdle
    /\ SifIdle
    /\ RepIdle

BlueNext ==
    \/ DoHealOnDemand /\ UNCHANGED btFrame
    \/ DoLogCompliance /\ UNCHANGED btFrame

BlueSpec == BlueSpecInit /\ [][BlueNext]_vars

\* the monitoring goroutine, its ticker and the callers of StopMonitoring
LoopSpecInit ==
    /\ \E config \in LoopConfigs : bt = NewBlueTeam(config)
    /\ auditor = NewAuditor([MaxEvents |-> 0])
    /\ btRet = NilAction
    /\ heals = <<>>
    /\ LoopInit
    /\ DetIdle /\ ConcIdle /\ MonIdle /\ P95Idle /\ MonConcIdle /\ RtIdle /\ ThIdle /\ AuInit
    /\ RedConcInit
    /\ RunIdle
    /\ SifIdle
    /\ RepIdle

LoopNext ==
    \/ DoStartMonitoring /\ UNCHANGED loopFrame
    \/ LoopNewTicker /\ UNCHANGED loopFrame
    \/ LoopTick /\ UNCHANGED loopFrame
    \/ LoopHealthCheck /\ UNCHANGED loopFrame
    \/ DoStopMonitoring /\ UNCHANGED loopFrame
    \/ LoopStop /\ UNCHANGED loopFrame

LoopSpec == LoopSpecInit /\ [][LoopNext]_vars

\* goroutines calling LogEvent, GetEvents and Close on one Auditor
AuditSpecInit ==
    /\ \E config \in AuditConfigs : auditor = NewAuditor(config)
    /\ bt = NewBlueTeam([MaxActions |-> 0, HealingEnabled |-> FALSE])
    /\ btRet = NilAction
    /\ heals = <<>>
    /\ AuInit
    /\ LoopInit
    /\ RedConcInit
    /\ DetIdle /\ ConcIdle /\ MonIdle /\ P95Idle /\ MonConcIdle /\ RtIdle /\ ThIdle
    /\ RunIdle
    /\ SifIdle
    /\ RepIdle

AuditNext ==
    \E g \in Goroutines :
        \/ CallLogEvent(g) /\ UNCHANGED audFrame
        \/ LogEventLock(g) /\ UNCHANGED audFrame
        \/ LogEventBody(g) /\ UNCHANGED audFrame
        \/ LogEventWrite(g) /\ UNCHANGED audFrame
        \/ LogEventUnlock(g) /\ UNCHANGED audFrame
        \/ DoGetEvents(g) /\ UNCHANGED audFrame
        \/ CallClose(g) /\ UNCHANGED audFrame
        \/ CloseLock(g) /\ UNCHANGED audFrame

AuditSpec == AuditSpecInit /\ [][AuditNext]_vars

\* goroutines calling the RedTeam's readers and writers
RedConcSpecInit ==
    /\ rt \in {NewRedTeam,
               ShouldInjectFault(ConfigureFault(NewRedTeam,
                   [Type |-> "latency", Probability |-> 100, Duration |-> 1,
                    Enabled |-> TRUE]), "latency", 0, 0).rt}
    /\ now = 0
    /\ incident = [faultType \in FaultTypes |-> -1]
    /\ rtRet = RtReturned("NewRedTeam", "latency", NewRedTeam, -1, FALSE, FALSE, <<>>)
    /\ RedConcInit
    /\ DetIdle /\ ConcIdle /\ MonIdle /\ P95Idle /\ MonConcIdle /\ ThIdle /\ BtIdle
    /\ LoopInit
    /\ AuInit
    /\ RunIdle
    /\ SifIdle
    /\ RepIdle

RedConcNext ==
    \E g \in Goroutines :
        \/ CallGetFaultStats(g) /\ UNCHANGED redConcFrame
        \/ CallGetActiveFaults(g) /\ UNCHANGED redConcFrame
        \/ GetFaultStatsRLock(g) /\ UNCHANGED redConcFrame
        \/ GetActiveFaultsRLock(g) /\ UNCHANGED redConcFrame
        \/ GetActiveFaultsRange(g) /\ UNCHANGED redConcFrame
        \/ GetFaultStatsReturn(g) /\ UNCHANGED redConcFrame
        \/ WriteLock(g) /\ UNCHANGED redConcFrame
        \/ WriteBody(g) /\ UNCHANGED redConcFrame

RedConcSpec == RedConcSpecInit /\ [][RedConcNext]_vars

\* the detector on the given runs
runFrame == <<detVars, concVars, monVars, monConcVars, p95Vars, rtVars, thVars, btVars,
             loopVars, audVars, redConcVars,
     sifVars,
     repVars>>

RunSpecInit ==
    /\ RunInit
    /\ DetIdle /\ ConcIdle /\ MonIdle /\ P95Idle /\ MonConcIdle /\ RtIdle /\ ThIdle /\ BtIdle
    /\ LoopInit
    /\ AuInit
    /\ RedConcInit
    /\ SifIdle
    /\ RepIdle

RunNext == DoProcessData64 /\ UNCHANGED runFrame

RunSpec == RunSpecInit /\ [][RunNext]_vars

sifFrame == <<detVars, concVars, monVars, monConcVars, p95Vars, thVars, btVars, loopVars,
             audVars, redConcVars, runVars,
     repVars>>

\* "latency" is configured, with either probability and either duration
SifSpecInit ==
    /\ \E probability \in {50, 100}, duration \in FaultDurations :
        rt = ConfigureFault(NewRedTeam, [Type |-> "latency", Probability |-> probability,
                                         Duration |-> duration, Enabled |-> TRUE])
    /\ now = 0
    /\ incident = [faultType \in FaultTypes |-> -1]
    /\ rtRet = RtReturned("NewRedTeam", "latency", NewRedTeam, -1, FALSE, FALSE, <<>>)
    /\ SifIdle
    /\ DetIdle /\ ConcIdle /\ MonIdle /\ P95Idle /\ MonConcIdle /\ ThIdle /\ BtIdle
    /\ LoopInit
    /\ AuInit
    /\ RedConcInit
    /\ RunIdle
    /\ RepIdle

SifNext ==
    \/ Tick /\ UNCHANGED <<sifFrame, sifVars>>
    \/ DoEnableFault /\ UNCHANGED <<sifFrame, sifVars>>
    \/ DoDisableFault /\ UNCHANGED <<sifFrame, sifVars>>
    \/ \E g \in Goroutines :
        \/ CallShouldInjectFault(g) /\ UNCHANGED sifFrame
        \/ SifReadConfig(g) /\ UNCHANGED sifFrame
        \/ SifCheckEnabled(g) /\ UNCHANGED sifFrame
        \/ SifCheckActive(g) /\ UNCHANGED sifFrame
        \/ SifRoll(g) /\ UNCHANGED sifFrame
        \/ SifStore(g) /\ UNCHANGED sifFrame

SifSpec == SifSpecInit /\ [][SifNext]_vars

\* RecordDecision from several goroutines while a report is generated
repFrame == <<detVars, concVars, p95Vars, rtVars, thVars, btVars, loopVars, audVars,
             redConcVars, runVars, sifVars>>

ReportNext ==
    \/ \E g \in Goroutines :
        \/ CallRecordDecision(g) /\ UNCHANGED monConcFrame
        \/ RecordDecisionLock(g) /\ UNCHANGED monConcFrame
        \/ RecordDecisionAppend(g) /\ UNCHANGED monConcFrame
        \/ RecordDecisionTrim(g) /\ UNCHANGED monConcFrame
        \/ UpdateMetricsRatios(g) /\ UNCHANGED monConcFrame
        \/ UpdateMetricsTotal(g) /\ UNCHANGED monConcFrame
        \/ UpdateMetricsSuccessful(g) /\ UNCHANGED monConcFrame
        \/ UpdateMetricsRevenue(g) /\ UNCHANGED monConcFrame
        \/ RecordDecisionUnlock(g) /\ UNCHANGED monConcFrame
    \/ CallGenerateSBOHReport /\ UNCHANGED repFrame
    \/ ReportMetrics /\ UNCHANGED repFrame
    \/ ReportA2 /\ UNCHANGED repFrame
    \/ ReportA4 /\ UNCHANGED repFrame
    \/ ReportSampleCount /\ UNCHANGED repFrame
    \/ ReportReturn /\ UNCHANGED repFrame

ReportSpec == MonSpecInit /\ [][ReportNext]_vars

\* the monitoring goroutine while healing is enabled, disabled and asked for
flagFrame == <<detVars, concVars, monVars, monConcVars, p95Vars, rtVars, thVars, audVars,
              redConcVars, runVars, sifVars, repVars>>

FlagNext ==
    \/ DoStartMonitoring /\ UNCHANGED loopFrame
    \/ LoopNewTicker /\ UNCHANGED loopFrame
    \/ FlagTick /\ UNCHANGED loopFrame
    \/ LoopHealthCheck /\ UNCHANGED loopFrame
    \/ DoStopMonitoring /\ UNCHANGED loopFrame
    \/ LoopStop /\ UNCHANGED loopFrame
    \/ DoEnableHealing /\ UNCHANGED flagFrame
    \/ DoDisableHealing /\ UNCHANGED flagFrame
    \/ HealOnDemandBesideLoop /\ UNCHANGED flagFrame

FlagSpec == LoopSpecInit /\ [][FlagNext]_vars

\* ------------------------------------------------------------------------
\* Properties of the detector
\* ------------------------------------------------------------------------
Min(a, b) == IF a < b THEN a ELSE b

\* the last n elements of s
LastN(s, n) == SubSeq(s, Len(s) - n + 1, Len(s))

\* the sum, and the sum of squares, of a window recomputed from its values
RECURSIVE RecomputedSum(_)
RecomputedSum(w) ==
    IF w = <<>> THEN 0 ELSE FAdd(RecomputedSum(SubSeq(w, 1, Len(w) - 1)), w[Len(w)])

RECURSIVE RecomputedSumOfSquares(_)
RecomputedSumOfSquares(w) ==
    IF w = <<>> THEN 0
    ELSE FAdd(RecomputedSumOfSquares(SubSeq(w, 1, Len(w) - 1)), FMul(w[Len(w)], w[Len(w)]))

\* C1: after k ProcessData calls since construction or the last Reset the
\* window holds min(k, WindowSize) values, sum is the sum of the values in the
\* window and sumOfSquares is the sum of their squares.
C1_WindowInvariant ==
    /\ Len(ad.dataWindow) = Min(Len(hist), ad.WindowSize)
    /\ ad.sum = RecomputedSum(ad.dataWindow)
    /\ ad.sumOfSquares = RecomputedSumOfSquares(ad.dataWindow)

\* C2: the window holds exactly the last min(k, WindowSize) submitted values in
\* arrival order, and a ProcessData call removes nothing but the oldest value
\* of a full window.
C2_StrictFIFO ==
    /\ ad.dataWindow = LastN(hist, Min(Len(hist), ad.WindowSize))
    /\ lastOp = "ProcessData" =>
          ad.dataWindow =
             Append(IF Len(prevWindow) >= ad.WindowSize THEN Tail(prevWindow) ELSE prevWindow,
                    hist[Len(hist)])

C2_Witness ==
    /\ lastOp = "ProcessData"
    /\ Len(prevWindow) = ad.WindowSize
    /\ ad.WindowSize >= 2
    /\ prevWindow[1] # prevWindow[2]
    /\ Len(hist) > ad.WindowSize + 1

C5_ZeroVariance ==
    (/\ lastOp = "ProcessData"
     /\ Len(prevWindow) >= 2
     /\ \A i \in 1..Len(prevWindow) : prevWindow[i] = prevWindow[1])
    => IF hist[Len(hist)] = prevWindow[1]
       THEN result = Ret(FALSE, 0)
       ELSE result = Ret(TRUE, MaxFloat64)

\* C6: the first ProcessData on an empty detector, freshly constructed or just
\* Reset, returns (false, 0, nil).
C6_InsufficientData ==
    (lastOp = "ProcessData" /\ Len(hist) = 1) => result = Ret(FALSE, 0)

C6_Witness ==
    /\ lastOp = "ProcessData"
    /\ Len(hist) = 1
    /\ calls >= 4
    /\ prevWindow = <<>>
    /\ ad.sum = 6 * Unit
    /\ result = Ret(FALSE, 0)

\* C31: Reset leaves an empty window and sum = sumOfSquares = 0 and keeps
\* WindowSize and Threshold; every ProcessData made afterwards returns what
\* the same values return on a freshly constructed detector with the same
\* parameters, and leaves the same window and sums.
C31_ResetClearsEntirely ==
    [][/\ lastOp' = "Reset" =>
             /\ ad'.dataWindow = <<>>
             /\ ad'.sum = 0
             /\ ad'.sumOfSquares = 0
             /\ ad'.WindowSize = ad.WindowSize
             /\ ad'.Threshold = ad.Threshold
             /\ twin' = NewDetector(ad.WindowSize, ad.Threshold)
       /\ lastOp' = "ProcessData" =>
             /\ result' = twinResult'
             /\ ad'.dataWindow = twin'.dataWindow
             /\ ad'.sum = twin'.sum
             /\ ad'.sumOfSquares = twin'.sumOfSquares]_vars

C31_Witness ==
    /\ lastOp = "Reset"
    /\ Len(prevWindow) = 3
    /\ prevWindow[1] # prevWindow[3]
    /\ calls = 4
    /\ ad.dataWindow = <<>>
    /\ ad.sum = 0
    /\ ad.WindowSize = 3

\* z > n/2, for a float64 z >= 0 and a small natural number n
AboveHalves(z, n) == IF z.e <= 0 THEN 2 * z.m > n * 2^(-z.e) ELSE z.m > 0

\* C32: on a fresh detector with windowSize 500 and threshold 3.5 that has
\* been given 0, 1, 2, ... (499 or 500 values), the value 10000 is classified
\* anomalous with a zScore above 3.5.
C32_EndToEnd ==
    (run.name \in {"ramp of 499", "ramp of 500"} /\ fed = Len(run.data)) =>
        /\ rres.isAnomaly
        /\ AboveHalves(rres.zScore, 7)

C32_Witness ==
    /\ run.name = "ramp of 500"
    /\ fed = 501
    /\ Len(rd.dataWindow) = 500
    /\ rd.dataWindow[1] = HiFromInt(1)
    /\ rd.dataWindow[500] = HiFromInt(10000)
    /\ rres.isAnomaly

\* C33: 100 after 1 is anomalous with windowSize 2 and threshold 1.0, -100
\* after -10, -11, -12 is anomalous with windowSize 5 and threshold 2.0, and
\* 100 after 1, 2, 3 is not anomalous with threshold 10.0.
C33_SmallWindows ==
    fed = Len(run.data) =>
        /\ run.name = "very small window" => rres.isAnomaly
        /\ run.name = "negative values" => rres.isAnomaly
        /\ run.name = "very high threshold" => ~rres.isAnomaly

\* z * z <= k, exactly
SquareAtMost(z, k) ==
    IF z.e <= 0 THEN z.m * z.m <= k * 2^(-2 * z.e) ELSE z.m = 0

\* C36: when the window, the new value included, holds n >= 2 samples with
\* nonzero variance, the returned zScore satisfies zScore^2 <= n - 1, and a
\* detector whose threshold is sqrt(windowSize - 1) reports no anomaly
\* through the comparison of the z-score with the threshold.
C36_WindowPopulationBound ==
    (/\ run.name = "threshold at the bound"
     /\ fed >= 2
     /\ \E i \in 1..Len(rd.dataWindow) : rd.dataWindow[i] # rd.dataWindow[1]) =>
        /\ SquareAtMost(rres.zScore, Len(rd.dataWindow) - 1)
        /\ ~rres.isAnomaly

\* the state a detector built as ad was built is in after the calls of order, one after the other
SeqApply(d, call) ==
    IF call.op = "ProcessData"
    THEN ProcessData(d, [Timestamp |-> 1, Value |-> call.value]).det
    ELSE Reset(d)

RECURSIVE SeqState(_, _)
SeqState(d0, calls_) ==
    IF calls_ = <<>> THEN d0
    ELSE SeqApply(SeqState(d0, SubSeq(calls_, 1, Len(calls_) - 1)), calls_[Len(calls_)])

Fresh == NewDetector(ad.WindowSize, ad.Threshold)

Writing(g) == pc[g] \in {"pd_evict", "pd_insert", "pd_evaluate", "pd_unlock",
                         "rs_window", "rs_sums", "rs_unlock"}
Reading(g) == pc[g] \in {"gs_size", "gs_compute", "gs_runlock"}

\* C4: calls on one detector are serialized by its lock: at most one goroutine
\* is inside ProcessData or Reset and then none is inside GetStats; whenever no
\* writer holds the lock the detector is in the state the calls produce when run
\* one after the other in the order they took the lock; every ProcessData
\* returns what it returns in that sequential run, and every GetStats returns
\* the statistics of one such state (count, sum and sumOfSquares of one window).
C4_Serialized ==
    /\ \A g, h \in Goroutines : (g # h /\ Writing(g)) => ~Writing(h) /\ ~Reading(h)
    /\ (\A g \in Goroutines : ~Writing(g)) => ad = SeqState(Fresh, order)
    /\ \A g \in Goroutines :
          pc[g] = "pd_unlock" =>
             ret[g] = ProcessData(SeqState(Fresh, SubSeq(order, 1, Len(order) - 1)),
                                  [Timestamp |-> 1, Value |-> arg[g]]).ret
    /\ \A g \in Goroutines :
          pc[g] = "gs_runlock" => ret[g] = GetStats(SeqState(Fresh, order))

C4_Witness ==
    \E g, h \in Goroutines :
        /\ g # h
        /\ pc[g] = "gs_runlock"
        /\ pc[h] = "pd_lock"
        /\ Len(order) = 1
        /\ order[1].op = "ProcessData"
        /\ ret[g].count = 1
        /\ ret[g] = GetStats(SeqState(Fresh, order))

\* ------------------------------------------------------------------------
\* Properties of the compliance monitor
\* ------------------------------------------------------------------------
\* the samples the monitor should hold: the last min(records, maxSamples) recorded
Kept == LastN(mlog, Min(Len(mlog), hv.maxSamples))

\* the element at index k (from 0) of the values of s in ascending order
Kth(s, k) ==
    CHOOSE v \in {s[i] : i \in DOMAIN s} :
        /\ Cardinality({i \in DOMAIN s : s[i] < v}) <= k
        /\ k < Cardinality({i \in DOMAIN s : s[i] <= v})

\* P95 of a window: 0 when empty, else the element at index
\* min(floor(0.95 * n), n - 1) of the latencies in ascending order
P95Of(latencies) ==
    IF Len(latencies) = 0 THEN 0
    ELSE Kth(latencies, Min((95 * Len(latencies)) \div 100, Len(latencies) - 1))

\* C7: the three buffers have the same length min(records, maxSamples), their
\* i-th entries come from the same RecordDecision call, and what has been
\* evicted is the oldest samples, from all three buffers alike.
C7_BuffersAligned ==
    /\ Len(hv.latencySamples) = Min(Len(mlog), hv.maxSamples)
    /\ Len(hv.decisionOutcomes) = Len(hv.latencySamples)
    /\ Len(hv.revenueTracking) = Len(hv.latencySamples)
    /\ \A i \in 1..Len(Kept) :
          /\ hv.latencySamples[i] = Kept[i].latencyMS
          /\ hv.decisionOutcomes[i] = Kept[i].success
          /\ hv.revenueTracking[i] = Kept[i].revenue

C7_Witness ==
    /\ Len(mlog) = hv.maxSamples + 1
    /\ hv.maxSamples = 2
    /\ mlog[1] = [latencyMS |-> 60, success |-> FALSE, revenue |-> 0]
    /\ mlog[2] = [latencyMS |-> 10, success |-> TRUE, revenue |-> 1]
    /\ mlog[3] = [latencyMS |-> 50, success |-> FALSE, revenue |-> 1]
    /\ hv.latencySamples = <<10, 50>>
    /\ hv.decisionOutcomes = <<TRUE, FALSE>>
    /\ hv.revenueTracking = <<1, 1>>

\* C8: on a monitor with no recorded sample GetSBOHMetrics reports a success
\* rate of 100 and an accounting accuracy of 100, and IsAxiomA2Compliant and
\* IsAxiomA4Compliant return true.
C8_EmptyMonitorCompliant ==
    Len(mlog) = 0 =>
       /\ mret.op = "GetSBOHMetrics" =>
             /\ mret.metrics.DecisionSuccessRate = Percent(1, 1)
             /\ mret.metrics.MonetizationAccuracy = Percent(1, 1)
       /\ mret.op = "IsAxiomA2Compliant" => mret.bool
       /\ mret.op = "IsAxiomA4Compliant" => mret.bool

\* C9: after at least one RecordDecision, IsAxiomA2Compliant returns true iff
\* the P95 latency of the current window is <= 50 ms, and IsAxiomA4Compliant
\* returns true iff at least 99.999 percent of the window's samples have a
\* nonzero revenue.
C9_CompliancePredicates ==
    Len(mlog) >= 1 =>
       /\ mret.op = "IsAxiomA2Compliant" =>
             (mret.bool <=> P95Of([i \in 1..Len(Kept) |-> Kept[i].latencyMS]) <= 50)
       /\ mret.op = "IsAxiomA4Compliant" =>
             (mret.bool <=>
                 100000 * Cardinality({i \in 1..Len(Kept) : Kept[i].revenue # 0})
                    >= 99999 * Len(Kept))

C9_Witness ==
    /\ mret.op = "IsAxiomA2Compliant"
    /\ mret.bool
    /\ Len(mlog) > hv.maxSamples
    /\ mlog[1].latencyMS = 60
    /\ hv.metrics.P95LatencyMS = 50

\* C10: calculateP95Latency returns 0 for an empty window and otherwise the
\* element at index min(floor(0.95 * n), n - 1) of the latencies in ascending
\* order, leaving the window as it was: 100 for 10,20,..,100 and 96 for 1..100.
C10_P95 ==
    p95ret # -1 =>
       /\ p95ret = P95Of(p95in)
       /\ p95h.latencySamples = p95in
       /\ p95in = Window(10, "tens") => p95ret = 100
       /\ p95in = Window(100, "ascending") => p95ret = 96
       /\ Len(p95in) = 0 => p95ret = 0

C10_Witness ==
    /\ p95in = Window(100, "rotated")
    /\ p95ret = 96

\* C37: violations heal by eviction: after any history, once maxSamples
\* consecutive samples with latency <= 50 ms have been recorded
\* IsAxiomA2Compliant returns true, and once maxSamples consecutive samples
\* with nonzero revenue have been recorded IsAxiomA4Compliant returns true.
C37_HealsByEviction ==
    Len(mlog) >= hv.maxSamples =>
        LET recent == LastN(mlog, hv.maxSamples)
        IN  /\ (/\ mret.op = "IsAxiomA2Compliant"
                /\ \A i \in DOMAIN recent : recent[i].latencyMS <= A2LimitMS) => mret.bool
            /\ (/\ mret.op = "IsAxiomA4Compliant"
                /\ \A i \in DOMAIN recent : recent[i].revenue # 0) => mret.bool

\* a violation of both rules has been evicted from a window of two
C37_Witness ==
    /\ hv.maxSamples = 2
    /\ Len(mlog) = 3
    /\ mlog[1].latencyMS = 60 /\ mlog[1].revenue = 0
    /\ mlog[2].latencyMS = 50 /\ mlog[2].revenue = 1
    /\ mlog[3].latencyMS = 10 /\ mlog[3].revenue = 1
    /\ hv.metrics.P95LatencyMS = 50
    /\ mret.op = "IsAxiomA4Compliant"
    /\ mret.bool

\* C38: for maxSamples below 100000, after at least one RecordDecision
\* IsAxiomA4Compliant returns true iff no sample of the current window has
\* revenue exactly 0.
C38_OneZeroRevenueViolates ==
    (/\ mret.op = "IsAxiomA4Compliant"
     /\ Len(mlog) >= 1
     /\ hv.maxSamples < 100000) =>
        (mret.bool <=> \A i \in DOMAIN Kept : Kept[i].revenue # 0)

\* one zero-revenue sample among three, with the default maxSamples
C38_Witness ==
    /\ mret.op = "IsAxiomA4Compliant"
    /\ ~mret.bool
    /\ hv.maxSamples = DefaultMaxSamples
    /\ Len(mlog) = 3
    /\ mlog[1].revenue = 1 /\ mlog[2].revenue = 0 /\ mlog[3].revenue = 1
    /\ hv.metrics.MonetizationAccuracy = Percent(2, 3)

\* ------------------------------------------------------------------------
\* Properties of the compliance monitor called from several goroutines
\* ------------------------------------------------------------------------
\* the window after the first k recorded samples
WindowAfter(k) == LastN(SubSeq(mlog, 1, k), Min(k, hv.maxSamples))

\* the counters and the P95 of snapshot m are those of window w
DescribesWindow(m, w) ==
    /\ m.TotalDecisions = Len(w)
    /\ m.SuccessfulDecisions = Cardinality({i \in DOMAIN w : w[i].success})
    /\ m.TotalRevenue = SumSeq([i \in DOMAIN w |-> w[i].revenue])
    /\ m.P95LatencyMS = P95Of([i \in DOMAIN w |-> w[i].latencyMS])

\* C11: whenever no RecordDecision is in progress, the stored snapshot's
\* TotalDecisions, SuccessfulDecisions and TotalRevenue are the number of
\* samples in the window (min(records, maxSamples)), the number of successful
\* ones and the sum of their revenues; and the snapshot a GetSBOHMetrics
\* running beside RecordDecision calls has copied describes one window, the
\* one after some number of the samples recorded so far.
C11_SnapshotOfOneWindow ==
    /\ hmu.writer = 0 => DescribesWindow(hv.metrics, Kept)
    /\ \A g \in Goroutines :
          hpc[g] = "gm_runlock" =>
             \E k \in 0..Len(mlog) : DescribesWindow(hret[g], WindowAfter(k))

C11_Witness ==
    \E g, w \in Goroutines :
        /\ hpc[g] = "gm_runlock"
        /\ hpc[w] = "rd_lock"
        /\ Len(mlog) = 1
        /\ hret[g].TotalDecisions = 1
        /\ hret[g].SuccessfulDecisions = 1
        /\ hret[g].TotalRevenue = 1

\* ------------------------------------------------------------------------
\* Properties of the fault injector
\* ------------------------------------------------------------------------
\* the kind of the last call was configured, resp. enabled, resp. had an
\* active entry, when the call was made
WasConfigured == rtRet.kind \in DOMAIN rtRet.pre.faultConfigs
WasEnabled == WasConfigured /\ rtRet.pre.faultConfigs[rtRet.kind].Enabled
WasActive == rtRet.kind \in DOMAIN rtRet.pre.activeFaults
\* the age of that active entry at the call, and the kind's duration
AgeThen == rtRet.at - rtRet.pre.activeFaults[rtRet.kind]
DurationThen == rtRet.pre.faultConfigs[rtRet.kind].Duration

\* C12: when a trial for kind k has succeeded at time t, and k has not been
\* disabled or configured again since, a ShouldInjectFault(k) call at a time
\* earlier than t + duration returns true, draws no random number and leaves
\* k's activation time at t.
C12_SustainedIncident ==
    (/\ rtRet.op = "ShouldInjectFault"
     /\ rtRet.incident # -1
     /\ rtRet.at < rtRet.incident + DurationThen)
    => /\ rtRet.bool
       /\ ~rtRet.drew
       /\ rtRet.kind \in DOMAIN rt.activeFaults
       /\ rt.activeFaults[rtRet.kind] = rtRet.incident

C12_Witness ==
    /\ rtRet.op = "ShouldInjectFault"
    /\ rtRet.incident = 0
    /\ rtRet.at = 1
    /\ DurationThen = 2
    /\ rtRet.pre.faultConfigs[rtRet.kind].Probability = 50
    /\ rtRet.bool
    /\ ~rtRet.drew

\* C13 as stated: with probability 1.0 and the kind enabled, a call without
\* an active entry returns true, a call before the duration has elapsed
\* returns true, and a call once the duration has elapsed returns false.
C13_ProbabilityOne ==
    (/\ rtRet.op = "ShouldInjectFault"
     /\ WasEnabled
     /\ rtRet.pre.faultConfigs[rtRet.kind].Probability = 100)
    => /\ ~WasActive => rtRet.bool
       /\ (WasActive /\ AgeThen < DurationThen) => rtRet.bool
       /\ (WasActive /\ AgeThen >= DurationThen) => ~rtRet.bool

\* C13, amended: with probability 1.0 and the kind enabled, every
\* ShouldInjectFault call returns true: before the duration of the active
\* entry has elapsed without a trial, and otherwise (no active entry, or its
\* duration has elapsed) by a new trial, which succeeds and makes the time of
\* the call the activation time.
C13_ProbabilityOneAlwaysPresent ==
    (/\ rtRet.op = "ShouldInjectFault"
     /\ WasEnabled
     /\ rtRet.pre.faultConfigs[rtRet.kind].Probability = 100)
    => /\ rtRet.bool
       /\ rtRet.kind \in DOMAIN rt.activeFaults
       /\ (WasActive /\ AgeThen < DurationThen) =>
             /\ ~rtRet.drew
             /\ rt.activeFaults[rtRet.kind] = rtRet.pre.activeFaults[rtRet.kind]
       /\ ~(WasActive /\ AgeThen < DurationThen) =>
             /\ rtRet.drew
             /\ rt.activeFaults[rtRet.kind] = rtRet.at

C13_Witness ==
    /\ rtRet.op = "ShouldInjectFault"
    /\ WasEnabled
    /\ rtRet.pre.faultConfigs[rtRet.kind].Probability = 100
    /\ WasActive
    /\ AgeThen >= DurationThen
    /\ rtRet.bool
    /\ rt.activeFaults[rtRet.kind] = rtRet.at

\* C14: ShouldInjectFault on a kind that is not configured, or is configured
\* and disabled, returns false, draws no random number and leaves the
\* RedTeam, its active table included, as it was.
C14_NotArmedNeverPresent ==
    (rtRet.op = "ShouldInjectFault" /\ ~WasEnabled)
    => /\ ~rtRet.bool
       /\ ~rtRet.drew
       /\ rt.activeFaults = rtRet.pre.activeFaults
       /\ rt = rtRet.pre

C14_Witness ==
    /\ rtRet.op = "ShouldInjectFault"
    /\ WasConfigured
    /\ ~WasEnabled
    /\ rtRet.pre.faultConfigs[rtRet.kind].Probability = 100
    /\ \E other \in DOMAIN rt.activeFaults : other # rtRet.kind
    /\ ~rtRet.bool

\* C15: DisableFault(k) on a configured kind leaves k disabled and without an
\* active entry, and the other kinds as they were; a disabled kind never has
\* an active entry and GetActiveFaults never shows one, so EnableFault(k)
\* leaves k enabled without an active entry, and a ShouldInjectFault(k) that
\* finds no active entry returns true only after drawing, with the time of
\* the call as the new activation time; EnableFault and DisableFault on an
\* unconfigured kind leave the RedTeam as it was.
C15_DisableDestroysIncident ==
    /\ (rtRet.op = "DisableFault" /\ WasConfigured) =>
          /\ ~rt.faultConfigs[rtRet.kind].Enabled
          /\ rtRet.kind \notin DOMAIN rt.activeFaults
          /\ \A other \in FaultTypes \ {rtRet.kind} :
                /\ other \in DOMAIN rt.activeFaults <=> other \in DOMAIN rtRet.pre.activeFaults
                /\ other \in DOMAIN rt.activeFaults =>
                      rt.activeFaults[other] = rtRet.pre.activeFaults[other]
    /\ \A k \in DOMAIN rt.faultConfigs :
          ~rt.faultConfigs[k].Enabled => k \notin DOMAIN rt.activeFaults
    /\ rtRet.op = "GetActiveFaults" =>
          \A k \in DOMAIN rtRet.faults :
              k \in DOMAIN rt.faultConfigs /\ rt.faultConfigs[k].Enabled
    /\ (rtRet.op = "EnableFault" /\ WasConfigured /\ ~WasEnabled) =>
          /\ rt.faultConfigs[rtRet.kind].Enabled
          /\ rtRet.kind \notin DOMAIN rt.activeFaults
    /\ (rtRet.op = "ShouldInjectFault" /\ ~WasActive /\ rtRet.bool) =>
          /\ rtRet.drew
          /\ rt.activeFaults[rtRet.kind] = rtRet.at
    /\ (rtRet.op \in {"EnableFault", "DisableFault"} /\ ~WasConfigured) =>
          rt = rtRet.pre

C15_Witness ==
    /\ rtRet.op = "DisableFault"
    /\ WasActive
    /\ AgeThen < DurationThen
    /\ rtRet.kind \notin DOMAIN rt.activeFaults
    /\ \E other \in DOMAIN rt.activeFaults : other # rtRet.kind

\* C16: CleanupExpiredFaults leaves the fault definitions as they were and
\* takes out of the active table exactly the entries of configured kinds
\* whose age has reached the kind's duration; the other entries keep their
\* activation time.
C16_SweepExact ==
    rtRet.op = "CleanupExpiredFaults" =>
       /\ rt.faultConfigs = rtRet.pre.faultConfigs
       /\ DOMAIN rt.activeFaults =
             {k \in DOMAIN rtRet.pre.activeFaults :
                 ~(/\ k \in DOMAIN rtRet.pre.faultConfigs
                   /\ rtRet.at - rtRet.pre.activeFaults[k]
                         >= rtRet.pre.faultConfigs[k].Duration)}
       /\ \A k \in DOMAIN rt.activeFaults :
             rt.activeFaults[k] = rtRet.pre.activeFaults[k]

C16_Witness ==
    /\ rtRet.op = "CleanupExpiredFaults"
    /\ Cardinality(DOMAIN rtRet.pre.activeFaults) = 2
    /\ Cardinality(DOMAIN rt.activeFaults) = 1
    /\ \E k \in DOMAIN rtRet.pre.activeFaults \ DOMAIN rt.activeFaults :
          rtRet.at - rtRet.pre.activeFaults[k] = rtRet.pre.faultConfigs[k].Duration

\* ------------------------------------------------------------------------
\* Properties of TriggerHealing
\* ------------------------------------------------------------------------
\* the invocations whose duration was within the 60 seconds
WithinLimit == SelectSeq(triggers, LAMBDA t : t.duration <= 60)

C34_ExceededCounted ==
    out.exceeded = Cardinality({i \in 1..Len(triggers) : triggers[i].duration > 60})

\* C22: a TriggerHealing invocation with isCritical = true leaves the
\* detector with an empty window, sum = sumOfSquares = 0, WindowSize 500 and
\* Threshold 3.5, whatever window, sums and parameters it found.
C22_HardReversionDefaults ==
    [][(Len(triggers') > Len(triggers) /\ triggers'[Len(triggers')].isCritical) =>
          /\ hd'.dataWindow = <<>>
          /\ hd'.sum = 0
          /\ hd'.sumOfSquares = 0
          /\ hd'.WindowSize = 500
          /\ 2 * hd'.Threshold = 7 * Unit]_vars

C22_Witness ==
    /\ Len(triggers) = 1
    /\ triggers[1].isCritical
    /\ hdBefore.WindowSize = 2
    /\ Len(hdBefore.dataWindow) = 2
    /\ hdBefore.sum # 0
    /\ hd.WindowSize = 500
    /\ hd.dataWindow = <<>>

\* ------------------------------------------------------------------------
\* Properties of on-demand healing
\* ------------------------------------------------------------------------
\* C18: HealOnDemand returns an action for the issue and strategy it was
\* given, whatever they are, and that action is the newest entry of the
\* healing history; for a strategy that is not one of the five the action
\* has Success = false, Status "failed" and a non-empty Error.
C18_AlwaysAnAction ==
    heals # <<>> =>
       LET given == heals[Len(heals)]
       IN  /\ btRet # NilAction
           /\ btRet.Type = given.issueType
           /\ btRet.Strategy = given.strategy
           /\ bt.healingActions # <<>>
           /\ bt.healingActions[Len(bt.healingActions)] = btRet
           /\ given.strategy \notin HealingStrategies =>
                 /\ ~btRet.Success
                 /\ btRet.Status = "failed"
                 /\ btRet.Error # ""

C18_Witness ==
    /\ Len(heals) = 2
    /\ heals[2] = [issueType |-> "disk_full", strategy |-> "reboot"]
    /\ bt.maxActions = 1
    /\ bt.healingActions = <<btRet>>
    /\ btRet.Status = "failed"

\* C19: the action HealOnDemand returns for an issue kind that is not one of
\* the IssueType constants has Success = false and a non-empty Error, also
\* when the strategy is one of the five.
C19_UnknownIssueReported ==
    (heals # <<>> /\ heals[Len(heals)].issueType \notin IssueTypes) =>
       /\ ~btRet.Success
       /\ btRet.Error # ""

\* C20: a HealOnDemand whose action ends with Success = false appends an
\* event to the Auditor's ledger.
C20_FailuresInLedger ==
    [][(Len(heals') > Len(heals) /\ ~btRet'.Success) =>
          Len(auditor'.events) > Len(auditor.events)]_vars

\* ------------------------------------------------------------------------
\* Properties of the monitoring goroutine and of the healing history
\* ------------------------------------------------------------------------
\* C21: the healing history never holds more than maxActions actions, and an
\* insertion that finds it full (maxActions >= 10) removes the oldest tenth
\* of maxActions entries in that one step, leaving
\* maxActions + 1 - maxActions/10 entries.
C21_BulkEviction ==
    [][inserted' = inserted + 1 =>
          /\ Len(bt'.healingActions) <= bt.maxActions
          /\ (Len(bt.healingActions) = bt.maxActions /\ bt.maxActions >= 10) =>
                Len(bt'.healingActions) = bt.maxActions + 1 - (bt.maxActions \div 10)]_vars

\* C23: once a StopMonitoring call made after StartMonitoring has returned,
\* no further health check begins.
C23_StopEndsMonitoring == lateChecks = 0

\* C24: every StopMonitoring call returns in its one step, whether the
\* goroutine was never started, is running or has stopped, and leaves the
\* BlueTeam (healing history, healingEnabled) as it was.
C24_StopNeverBlocks ==
    [][stops' # stops => (stopper' = "idle" /\ bt' = bt)]_vars

C24_Witness ==
    /\ stops = 2
    /\ loop = "stopped"
    /\ ticker = "stopped"
    /\ Len(bt.healingActions) = 4
    /\ stopper = "idle"

\* ------------------------------------------------------------------------
\* Properties of the RedTeam under concurrent callers
\* ------------------------------------------------------------------------
\* C25: concurrent calls of the RedTeam's operations never deadlock: there
\* is no state in which some goroutines are inside an operation and every
\* one of them waits for rt.mu, so that no step can ever release it.
C25_NoDeadlock ==
    ~ /\ \E g \in Goroutines : rgo[g].pc # "idle"
      /\ \A g \in Goroutines : rgo[g].pc # "idle" => Blocked(g)

C27_LedgerWithinCapacity ==
    /\ ~auditor.panicked
    /\ Len(auditor.events) <= auditor.maxEvents
    /\ Len(auditor.events) > 0
    /\ auditor.events[Len(auditor.events)].ID = auditor.eventCounter

\* C28: GetEvents(limit) returns the last min(limit, len) events of the
\* ledger it read, in their order; limit <= 0 or limit > len returns all of
\* them; LogEvent calls made afterwards leave the returned events as they were.
C28_MostRecentEvents ==
    got.called =>
        LET n == Len(got.ledger)
            k == IF got.limit <= 0 \/ got.limit > n THEN n ELSE got.limit
        IN  /\ Len(got.result) = k
            /\ \A i \in 1..k : got.result[i] = got.ledger[n - k + i]

C28_Witness ==
    /\ got.called
    /\ got.limit = 1
    /\ Len(got.ledger) = 2
    /\ Len(got.result) = 1
    /\ got.result[1].ID = 2
    /\ auditor.eventCounter = 3

\* C29: no goroutine writes an event to the output file while it holds the
\* Auditor's mutex.
C29_NoFileWriteUnderLock ==
    \A g \in Goroutines : apc[g] = "le_write" => amu # g

\* C30: Close never waits for a lock that only Close itself could release:
\* the LogEvent call it makes is never left requesting a.mu while the caller
\* holds it.
C30_CloseTerminates ==
    \A g \in Goroutines : ~(aarg[g].inClose /\ apc[g] = "le_lock" /\ amu = g)

\* ------------------------------------------------------------------------
\* Properties of ShouldInjectFault running with EnableFault and DisableFault
\* ------------------------------------------------------------------------
\* C35: under any interleaving of ShouldInjectFault with DisableFault and
\* EnableFault, a kind that is disabled has no entry in the active-fault
\* table, so that enabling it again yields the armed state.
C35_DisabledHasNoEntry ==
    \A faultType \in DOMAIN rt.faultConfigs :
        ~rt.faultConfigs[faultType].Enabled => faultType \notin DOMAIN rt.activeFaults

\* ------------------------------------------------------------------------
\* Properties of GenerateSBOHReport
\* ------------------------------------------------------------------------
\* C39: every report returned is internally consistent, also when
\* RecordDecision runs concurrently: axiom_a2_compliant is true iff the
\* report's p95_latency_ms <= 50, axiom_a4_compliant is true iff its
\* monetization_accuracy >= 99.999, and sample_count equals total_decisions.
C39_ReportConsistent ==
    rep.pc = "returned" =>
        /\ rep.a2 <=> rep.metrics.P95LatencyMS <= A2LimitMS
        /\ rep.a4 <=> rep.metrics.MonetizationAccuracy >= A4LimitMilliPct
        /\ rep.sampleCount = rep.metrics.TotalDecisions

\* ------------------------------------------------------------------------
\* Properties of the healingEnabled flag
\* ------------------------------------------------------------------------
Last(s) == s[Len(s)]

====
